---- MODULE Spec2Model ----
(***************************************************************************)
(* grleconvert: the RLE-LAYER (.grle) and PACKED-DENSITY (.gdm) codecs of   *)
(* src/src/main.rs, and the conversions between them and 8-bit PNG images. *)
(*                                                                         *)
(* SpecRle  : encode_grle_rle / decode_grle_rle on bounded pixel buffers.  *)
(* Spec     : a PNG is converted to a binary file, the file is possibly   *)
(*            damaged, and the file is converted back to a PNG.            *)
(* SpecMain : one run of main: the command line is parsed, the layer      *)
(*            parameters are resolved and a conversion is called.          *)
(* SpecDecoder : decode_grle_rle, iteration by iteration, on any payload;  *)
(*            SpecDecoderLive adds that the function keeps running.        *)
(* SpecChunks : the chunks of a PACKED-DENSITY image encoded in any order. *)
(* SpecSizeField : the length field convert_png_to_grle writes for a      *)
(*            compressed payload of a given length.                        *)
(***************************************************************************)
EXTENDS Integers, Sequences, FiniteSets, TLC

VARIABLES
    rle_pc,        \* "input" | "encoded" | "padded" | "decoded" |
                   \* "decoded padded" | "loop" | "returned" | "off"
    rle_pixels,    \* the pixel buffer handed to encode_grle_rle
    rle_payload,   \* the byte stream encode_grle_rle returned
    rle_decoded,   \* the buffer decode_grle_rle returned, or holds so far
    rle_i,         \* the cursor i of decode_grle_rle while it is in its loop
    rle_expected_size, \* the expected_size decode_grle_rle is called with
    pc,            \* "start" | "encoded" | "decoded" | "off"
    target,        \* "grle" | "gdm": the binary format of the conversion
    png_in,        \* the input PNG of the encoder
    args,          \* [num_channels, compression_channels]
    existing,      \* whether the output paths held a file before the run
    bin,           \* the binary file: [state, data]
    enc_result,    \* what the encoder returned: "Ok", an error message, "Panic"
    damage,        \* what happened to the binary file after it was written
    png,           \* the PNG the decoder writes: [state, image]
    dec_result,    \* what the decoder returned
    decoded,       \* the pixel values the decoder produced, <<>> if none
    main_pc,       \* "start" | "exited" | "off"
    argv,          \* the command line after the program name
    fs,            \* the files main looks at: [i3d, content, png_opens]
    main_out,      \* what the run did: [exit_code, params, call, output]
    payload_len, \* the length of a compressed payload, 0 if none is modelled
    size_field,    \* the four bytes written for its length, <<>> before
    chunks_pc,     \* "encoding" | "joined" | "off"
    chunks_case,   \* the image and the layout whose chunks are encoded
    order,         \* the chunk indices in the order they were encoded
    chunk_blocks,  \* the blocks of each chunk, <<>> while it is not encoded
    stream         \* the header and the blocks of all chunks, put together

rle_vars == <<rle_pc, rle_pixels, rle_payload, rle_decoded, rle_i,
              rle_expected_size>>

file_vars == <<pc, target, png_in, args, existing, bin, enc_result, damage, png,
               dec_result, decoded>>

main_vars == <<main_pc, argv, fs, main_out>>

size_vars == <<payload_len, size_field>>

chunk_vars == <<chunks_pc, chunks_case, order, chunk_blocks, stream>>

vars == <<rle_vars, file_vars, main_vars, size_vars, chunk_vars>>

----------------------------------------------------------------------------
(* Bounds of the model *)

\* the number of runs a pixel buffer of SpecRle is put together from
MaxRuns == 3

\* the number of bytes of the longest payload of SpecDecoder
MaxPayloadLen == 5

----------------------------------------------------------------------------
(* Helpers: Rust slices and vectors are 0-based *)

At(s, i) == s[i + 1]

Repeat(v, n) == [k \in 1..n |-> v] \o <<>>

Min2(a, b) == IF a <= b THEN a ELSE b

\* Iterator::collect, to_vec: the vector holding the values of s
collect(s) == s \o <<>>

SetMin(S) == CHOOSE x \in S : \A y \in S : x <= y

SetMax(S) == CHOOSE x \in S : \A y \in S : y <= x

----------------------------------------------------------------------------
(* RLE-LAYER encoder: encode_grle_rle *)

\* the inner while loop of lines 263-266: the least run_len >= 1 at which the
\* buffer ends or the value changes
run_len_at(pixels, i) ==
    CHOOSE r \in 1..(Len(pixels) - i) :
        /\ i + r = Len(pixels) \/ At(pixels, i + r) # At(pixels, i)
        /\ \A q \in 1..(r - 1) : At(pixels, i + q) = At(pixels, i)

\* a faulty variant of count_bytes that C17 tells apart: the count is split
\* in units of 256
count_bytes_256(remaining) == Repeat(255, remaining \div 256) \o <<remaining % 256>>

\* lines 273-278: 0xff while remaining >= 255, then the remainder byte
count_bytes(remaining) ==
    Repeat(255, remaining \div 255) \o <<remaining % 255>>

RECURSIVE encode_loop(_, _, _)
encode_loop(pixels, i, output) ==
    IF ~(i < Len(pixels)) THEN output
    ELSE LET value   == At(pixels, i)
             run_len == run_len_at(pixels, i)
         IN  IF run_len >= 2
             THEN encode_loop(pixels, i + run_len,
                              output \o <<value, value>> \o count_bytes(run_len - 2))
             ELSE encode_loop(pixels, i + 1, Append(output, value))

\* a faulty variant of encode_grle_rle that C28 tells apart: the payload of
\* a single pixel gets no second copy and no 0x00
encode_grle_rle_two_bytes(pixels) ==
    IF Len(pixels) = 0 THEN <<0>>
    ELSE encode_loop(pixels, 0, <<0>>)

encode_grle_rle(pixels) ==
    IF Len(pixels) = 0 THEN <<0>>
    ELSE LET output == encode_loop(pixels, 0, <<0>>)
         IN  IF Len(output) = 2
             THEN output \o <<At(output, 1), 0>>
             ELSE output

----------------------------------------------------------------------------
(* RLE-LAYER decoder: decode_grle_rle *)

\* lines 177-180: the loop over the 0xff continuation bytes from position i on
\* stops at the first j that is the end of data or holds another byte, having
\* added 255 for each byte it passed; <<count, i>> afterwards
read_continuation(data, i, count) ==
    LET j == SetMin({k \in i..Len(data) : k = Len(data) \/ At(data, k) # 255})
    IN  IF i < Len(data) THEN <<count + 255 * (j - i), j>> ELSE <<count, i>>

\* Vec::resize(expected_size, 0)
resize(output, new_len, value) ==
    IF Len(output) >= new_len THEN SubSeq(output, 1, new_len)
    ELSE output \o Repeat(value, new_len - Len(output))

\* a faulty variant of decode_continues that C25 tells apart: the loop needs
\* a byte after the pair it reads
decode_continues_three(data, expected_size, i, output) ==
    i + 2 < Len(data) /\ Len(output) < expected_size

\* line 169: the condition of the while loop
decode_continues(data, expected_size, i, output) ==
    i + 1 < Len(data) /\ Len(output) < expected_size

\* a faulty variant of decode_iteration that C23 tells apart: a run is
\* emitted whole, whatever space is left
decode_iteration_unclamped(data, expected_size, i, output) ==
    LET prev    == At(data, i)
        new_val == At(data, i + 1)
    IN  IF prev = new_val
        THEN LET rc      == read_continuation(data, i + 2, 0)
                 j       == rc[2]
                 count   == (IF j < Len(data) THEN rc[1] + At(data, j) ELSE rc[1]) + 2
                 next_i  == IF j < Len(data) THEN j + 1 ELSE j
             IN  <<next_i, output \o Repeat(prev, count)>>
        ELSE <<(i + 2) - 1, Append(output, prev)>>

\* a faulty variant of decode_iteration that C24 tells apart: a transition
\* rewinds the cursor by 2
decode_iteration_rewind_two(data, expected_size, i, output) ==
    LET prev    == At(data, i)
        new_val == At(data, i + 1)
    IN  IF prev = new_val
        THEN LET rc      == read_continuation(data, i + 2, 0)
                 j       == rc[2]
                 count   == (IF j < Len(data) THEN rc[1] + At(data, j) ELSE rc[1]) + 2
                 next_i  == IF j < Len(data) THEN j + 1 ELSE j
                 to_emit == Min2(count, expected_size - Len(output))
             IN  <<next_i, output \o Repeat(prev, to_emit)>>
        ELSE <<(i + 2) - 2, Append(output, prev)>>

\* lines 170-193: one iteration of the loop, <<i, output>> afterwards
decode_iteration(data, expected_size, i, output) ==
    LET prev    == At(data, i)
        new_val == At(data, i + 1)
    IN  IF prev = new_val
        THEN LET rc      == read_continuation(data, i + 2, 0)
                 j       == rc[2]
                 count   == (IF j < Len(data) THEN rc[1] + At(data, j) ELSE rc[1]) + 2
                 next_i  == IF j < Len(data) THEN j + 1 ELSE j
                 to_emit == Min2(count, expected_size - Len(output))
             IN  <<next_i, output \o Repeat(prev, to_emit)>>
        ELSE <<(i + 2) - 1, Append(output, prev)>>

RECURSIVE decode_loop(_, _, _, _)
decode_loop(data, expected_size, i, output) ==
    IF ~decode_continues(data, expected_size, i, output) THEN output
    ELSE LET st == decode_iteration(data, expected_size, i, output)
         IN  decode_loop(data, expected_size, st[1], st[2])

decode_grle_rle(data, expected_size) ==
    resize(decode_loop(data, expected_size, 1, <<>>), expected_size, 0)

----------------------------------------------------------------------------
(* Bit arithmetic on unsigned integers *)

BitOf(x, b) == (x \div 2^b) % 2

\* the bitwise OR of the numbers of S, over bit positions 0..b
RECURSIVE OrSetUpTo(_, _)
OrSetUpTo(S, b) ==
    IF b < 0 THEN 0
    ELSE (IF \E x \in S : BitOf(x, b) = 1 THEN 2^b ELSE 0) + OrSetUpTo(S, b - 1)

\* a | b
RECURSIVE BitOr(_, _)
BitOr(a, b) ==
    IF a = 0 THEN b
    ELSE IF b = 0 THEN a
    ELSE (IF a % 2 = 1 \/ b % 2 = 1 THEN 1 ELSE 0) + 2 * BitOr(a \div 2, b \div 2)

\* `x as u8`, `x as u16`
as_u8(x) == x % 256
as_u16(x) == x % 65536

\* u16::to_le_bytes
to_le_bytes(v) == <<v % 256, (v \div 256) % 256>>

\* 16 - u16::leading_zeros(v): the number of significant bits of v
bit_length(v) == SetMin({b \in 0..16 : v < 2^b})

----------------------------------------------------------------------------
(* PACKED-DENSITY block encoder: encode_gdm_block *)

\* unique_values after sort_unstable and dedup, as a set and as the sorted vector
unique_values(pixels) == {pixels[k] : k \in DOMAIN pixels}

RECURSIVE sorted_vec(_)
sorted_vec(S) ==
    IF S = {} THEN <<>>
    ELSE LET m == SetMin(S) IN <<m>> \o sorted_vec(S \ {m})

\* a faulty variant of value_to_idx that C15 tells apart: the positions are
\* counted from the largest value
value_to_idx_descending(uniq, pixel) == Cardinality({u \in uniq : u > pixel})

\* value_to_idx[pixel]: the position of pixel in the sorted unique values
value_to_idx(uniq, pixel) == Cardinality({u \in uniq : u < pixel})

\* the pixel indices whose bit_pos / 8 is byte_idx (none when byte_idx < 0)
pixels_at_byte(byte_idx, bit_depth, total_pixels) ==
    IF byte_idx < 0 THEN {}
    ELSE ((8 * byte_idx + bit_depth - 1) \div bit_depth)
             .. Min2((8 * byte_idx + 7) \div bit_depth, total_pixels - 1)

\* lines 626-636: what the palette loop leaves in bitmap[k]
palette_bitmap_byte(pixels, uniq, bit_depth, bitmap_size, total_pixels, k) ==
    LET idx(p) == value_to_idx(uniq, At(pixels, p))
        off(p) == (p * bit_depth) % 8
        low  == {as_u8(as_u8(idx(p)) * 2^off(p)) :
                    p \in pixels_at_byte(k, bit_depth, total_pixels)}
        high == {as_u8(idx(p)) \div 2^(8 - off(p)) :
                    p \in {q \in pixels_at_byte(k - 1, bit_depth, total_pixels) :
                              off(q) + bit_depth > 8 /\ k < bitmap_size}}
    IN  OrSetUpTo(low \cup high, 7)

\* lines 651-661: what the raw loop leaves in bitmap[k]
raw_bitmap_byte(pixels, bit_depth, bitmap_size, total_pixels, k) ==
    LET val(p) == At(pixels, p)
        off(p) == (p * bit_depth) % 8
        low  == {as_u8(as_u16(val(p) * 2^off(p))) :
                    p \in pixels_at_byte(k, bit_depth, total_pixels)}
        high == {as_u8(val(p) \div 2^(8 - off(p))) :
                    p \in {q \in pixels_at_byte(k - 1, bit_depth, total_pixels) :
                              k < bitmap_size}}
    IN  OrSetUpTo(low \cup high, 7)

\* a faulty variant of palette_bit_depth that C27 tells apart: every palette
\* block gets one bit per pixel
palette_bit_depth_one(u) == 1

\* a faulty variant of palette_bit_depth that C14 tells apart: every palette
\* block gets two bits per pixel
palette_bit_depth_two(u) == 2

\* lines 604-605: the bit depth of a palette block with u distinct values
palette_bit_depth(u) == IF u <= 2 THEN 1 ELSE 2

\* line 642: the bit depth of a raw block
raw_bit_depth(max_val) == IF bit_length(max_val) >= 1 THEN bit_length(max_val) ELSE 1

encode_gdm_block(pixels, chunk_size) ==
    LET total_pixels == Min2(chunk_size * chunk_size, Len(pixels))
        uniq         == unique_values(pixels)
    IN  IF Cardinality(uniq) = 1
        THEN <<0, 1>> \o to_le_bytes(SetMin(uniq))
        ELSE IF Cardinality(uniq) <= 4
        THEN LET bit_depth     == palette_bit_depth(Cardinality(uniq))
                 palette_count == Cardinality(uniq)
                 palette       == sorted_vec(uniq)
                 bitmap_size   == bit_depth * 128
             IN  <<bit_depth, as_u8(palette_count)>>
                 \o to_le_bytes(palette[1])
                 \o to_le_bytes(palette[2])
                 \o (IF palette_count >= 3 THEN to_le_bytes(palette[3]) ELSE <<>>)
                 \o (IF palette_count >= 4 THEN to_le_bytes(palette[4]) ELSE <<>>)
                 \o [k \in 1..bitmap_size |->
                        palette_bitmap_byte(pixels, uniq, bit_depth, bitmap_size,
                                            total_pixels, k - 1)]
        ELSE LET max_val     == SetMax(uniq)
                 bit_depth   == raw_bit_depth(max_val)
                 bitmap_size == bit_depth * 128
             IN  <<bit_depth, 0>>
                 \o [k \in 1..bitmap_size |->
                        raw_bitmap_byte(pixels, bit_depth, bitmap_size,
                                        total_pixels, k - 1)]

----------------------------------------------------------------------------
(* PACKED-DENSITY block decoder: decode_gdm_block *)

\* a faulty variant of block_mask that C29 tells apart: the mask keeps no
\* more than the 8 bits of one byte
block_mask_one_byte(bits_per_pixel) == 2^Min2(bits_per_pixel % 16, 8) - 1

\* line 417: (1u16 << bits_per_pixel) - 1; a shift of 16 or more overflows: a
\* build with overflow checks panics there, one without shifts by the amount
\* modulo 16
block_mask(bits_per_pixel) == 2^(bits_per_pixel % 16) - 1

\* palette[i] of line 404-406
palette_entry(data, pos, i) ==
    At(data, pos + 2 + i * 2) + 256 * At(data, pos + 3 + i * 2)

\* lines 419-438: the value of pixel pixel_idx
block_pixel(data, pos, bit_depth, palette_count, bitmap_size, pixel_idx) ==
    LET bitmap_start   == pos + 2 + 2 * palette_count
        bits_per_pixel == bit_depth
        bit_pos        == pixel_idx * bits_per_pixel
        byte_idx       == bit_pos \div 8
        bit_offset     == bit_pos % 8
        raw_value      == At(data, bitmap_start + byte_idx)
                          + (IF byte_idx + 1 < bitmap_size
                             THEN 256 * At(data, bitmap_start + byte_idx + 1)
                             ELSE 0)
        idx_or_value   == (raw_value \div 2^bit_offset)
                              % (block_mask(bits_per_pixel) + 1)
    IN  IF bit_depth <= 2 /\ palette_count > 0
        THEN IF idx_or_value < palette_count
             THEN palette_entry(data, pos, idx_or_value)
             ELSE 0
        ELSE idx_or_value

\* status: "ok", or "oob" when an index or a slice leaves data (a panic);
\* ovf: the shift of line 417 overflowed
decode_gdm_block(data, pos, chunk_size) ==
    LET bit_depth     == At(data, pos)
        palette_count == At(data, pos + 1)
        palette_size  == 2 * palette_count
        bitmap_size   == IF bit_depth > 0 THEN bit_depth * 128 ELSE 0
        block_size    == 2 + palette_size + bitmap_size
        total_pixels  == chunk_size * chunk_size
    IN  IF pos + 2 + palette_size > Len(data)
        THEN [status |-> "oob", ovf |-> FALSE, pixels |-> <<>>, block_size |-> 0]
        ELSE IF bit_depth = 0
        THEN [status |-> "ok", ovf |-> FALSE,
              pixels |-> Repeat(IF palette_count > 0
                                THEN palette_entry(data, pos, 0) ELSE 0,
                                total_pixels),
              block_size |-> block_size]
        ELSE IF pos + 2 + palette_size + bitmap_size > Len(data)
        THEN [status |-> "oob", ovf |-> FALSE, pixels |-> <<>>, block_size |-> 0]
        ELSE IF ((total_pixels - 1) * bit_depth) \div 8 >= bitmap_size
        THEN [status |-> "oob", ovf |-> bit_depth >= 16, pixels |-> <<>>,
              block_size |-> 0]
        ELSE [status |-> "ok", ovf |-> bit_depth >= 16,
              pixels |-> collect([p \in 1..total_pixels |->
                                    block_pixel(data, pos, bit_depth, palette_count,
                                                bitmap_size, p - 1)]),
              block_size |-> block_size]

----------------------------------------------------------------------------
(* PNG images as the png crate hands them to the converters *)

\* An input image is [width, height, color, pat, bits]: an 8-bit PNG of the
\* given colour type whose pixel at linear position i carries PatValue(img, i),
\* a number below 2^bits (bits <= 24): its low byte is the gray or R byte, the
\* next two are G and B.
PatValue(img, i) ==
    LET x == i % img.width
        y == i \div img.width
        ramp == i * 12697
        quads == (x % 2) * 8 + (y % 2)
        v == CASE img.pat = "uniform" -> 5
               [] img.pat = "halves"  -> IF y < img.height \div 2 THEN 3 ELSE 7
               [] img.pat = "quads"   -> quads
               [] img.pat = "ramp"    -> ramp
               [] img.pat = "mixed"   ->
                      (CASE (y \div 32) % 2 = 0 /\ (x \div 32) % 2 = 0 -> 5
                         [] (y \div 32) % 2 = 0 /\ (x \div 32) % 2 = 1 ->
                                IF y % 32 < 16 THEN 3 ELSE 7
                         [] (y \div 32) % 2 = 1 /\ (x \div 32) % 2 = 0 -> quads
                         [] OTHER -> ramp)
               [] img.pat = "thirds"  -> (i % 3) * 5
               [] img.pat = "zero"    -> 0
               [] img.pat = "bands"   -> (y \div 64) + 256 * (x \div 128)
               [] img.pat = "lastpx"  ->
                      IF i = img.width * img.height - 1 THEN 9 ELSE 0
    IN  v % 2^img.bits

\* bytes per pixel of the buffer next_frame fills
BytesPerPixel(color) ==
    CASE color = "Grayscale"      -> 1
      [] color = "GrayscaleAlpha" -> 2
      [] color = "Rgb"            -> 3
      [] color = "Rgba"           -> 4

\* pixels[k] after next_frame, k 0-based
PngByte(img, k) ==
    LET bpp == BytesPerPixel(img.color)
        i   == k \div bpp
        ch  == k % bpp
        c   == PatValue(img, i)
        alpha == (i * 7 + 13) % 256
    IN  CASE img.color = "Grayscale" -> c % 256
          [] img.color = "GrayscaleAlpha" -> IF ch = 0 THEN c % 256 ELSE alpha
          [] OTHER -> (CASE ch = 0 -> c % 256
                         [] ch = 1 -> (c \div 256) % 256
                         [] ch = 2 -> (c \div 65536) % 256
                         [] OTHER  -> alpha)

SupportedColor(color) == color \in {"Grayscale", "Rgb", "Rgba"}

\* Option<usize>
None == [some |-> FALSE, value |-> 0]
Some(v) == [some |-> TRUE, value |-> v]

\* the result a conversion returns when a build with overflow checks panics on
\* an arithmetic overflow that a build without them wraps
Outcome(r, overflow_checks) ==
    IF overflow_checks /\ r.ovf THEN "Panic" ELSE r.result

----------------------------------------------------------------------------
(* RLE-LAYER file encoder: convert_png_to_grle *)

\* lines 319-336: the gray value of pixel k (0-based): the first byte of chunk k
grle_gray_value(img, k) == PngByte(img, k * BytesPerPixel(img.color))

\* line 314
grle_bad_dimensions(width, height) == width % 256 # 0 \/ height % 256 # 0

\* a faulty variant of grle_size_field that C18 tells apart: the length is
\* stored, not the length less one
grle_size_field_full_len(compressed_len) ==
    <<0, compressed_len % 256, (compressed_len \div 256) % 256, (compressed_len \div 65536) % 256>>

\* lines 376-380: 0x00, then the low three bytes of compressed.len() - 1
grle_size_field(compressed_len) ==
    LET comp_size == compressed_len - 1
    IN  <<0, comp_size % 256, (comp_size \div 256) % 256, (comp_size \div 65536) % 256>>

\* lines 354-372: the first 16 bytes of the file
grle_header(width, height) ==
    <<71, 82, 76, 69>> \o to_le_bytes(1)
    \o to_le_bytes(as_u16(width \div 256)) \o <<0, 0>>
    \o to_le_bytes(as_u16(height \div 256))
    \o to_le_bytes(256) \o <<0, 0>>

\* the value convert_png_to_grle computes up to File::create
convert_png_to_grle(img, params) ==
    IF grle_bad_dimensions(img.width, img.height)
    THEN [result |-> "Dimensions must be multiples of 256", ovf |-> FALSE, output |-> <<>>]
    ELSE IF ~SupportedColor(img.color)
    THEN [result |-> "Unsupported PNG color type", ovf |-> FALSE, output |-> <<>>]
    ELSE LET grayscale_pixels ==
                 collect([k \in 1..(img.width * img.height) |->
                             grle_gray_value(img, k - 1)])
             compressed == encode_grle_rle(grayscale_pixels)
         IN  [result |-> "Ok", ovf |-> FALSE,
              output |-> grle_header(img.width, img.height)
                         \o grle_size_field(Len(compressed))
                         \o compressed]

----------------------------------------------------------------------------
(* RLE-LAYER file decoder: convert_grle_to_png *)

read_u16_le(data, offset) == At(data, offset) + 256 * At(data, offset + 1)

\* line 206
grle_magic_ok(data) == SubSeq(data, 1, 4) = <<71, 82, 76, 69>>

NoImage == [width |-> 0, height |-> 0, color |-> "none", data |-> <<>>]

\* the value convert_grle_to_png computes up to File::create; "Panic" is an
\* index or slice out of bounds (&data[0..4], read_u16_le, &data[20..])
convert_grle_to_png(data) ==
    IF Len(data) < 4
    THEN [result |-> "Panic", ovf |-> FALSE, pixels |-> <<>>, image |-> NoImage]
    ELSE IF ~grle_magic_ok(data)
    THEN [result |-> "Not a valid GRLE file", ovf |-> FALSE, pixels |-> <<>>,
          image |-> NoImage]
    ELSE IF Len(data) < 20
    THEN [result |-> "Panic", ovf |-> FALSE, pixels |-> <<>>, image |-> NoImage]
    ELSE LET width  == read_u16_le(data, 6) * 256
             height == read_u16_le(data, 10) * 256
             compressed_data == SubSeq(data, 21, Len(data))
             expected_size == width * height * 1
             pixels == decode_grle_rle(compressed_data, expected_size)
         IN  [result |-> "Ok", ovf |-> FALSE, pixels |-> pixels,
              image |-> [width |-> width, height |-> height,
                         color |-> "Grayscale", data |-> pixels]]

----------------------------------------------------------------------------
(* PACKED-DENSITY file encoder: convert_png_to_gdm *)

\* usize::trailing_zeros of a positive number
trailing_zeros(n) == SetMax({t \in 0..30 : n % 2^t = 0})

\* line 688
gdm_dim_log2(dimension) ==
    IF trailing_zeros(dimension) >= 5 THEN trailing_zeros(dimension) - 5 ELSE 0

\* a faulty variant of gdm_bad_dimension that C6 tells apart: the test of
\* line 689 takes every multiple of 32
gdm_bad_dimension_mod32(dimension) == dimension % 32 # 0

\* line 689
gdm_bad_dimension(dimension) == 2^(gdm_dim_log2(dimension) + 5) # dimension

\* lines 707-712: bits_per_range. A usize that wrapped below zero is kept as the
\* negative number it is congruent to modulo 2^64; it is only ever used as a
\* shift amount, that is modulo 32.
gdm_bits_per_range(num_channels, compression_channels) ==
    IF compression_channels.some
    THEN <<compression_channels.value, num_channels - compression_channels.value>>
    ELSE <<num_channels>>

\* a faulty variant of channel_value that C8 tells apart: the G byte of an RGB
\* or RGBA pixel is the low byte of the value
channel_value_green_low(img, k) ==
    IF img.color = "Grayscale"
    THEN PngByte(img, k)
    ELSE LET bpp == BytesPerPixel(img.color)
             r == PngByte(img, k * bpp)
             g == PngByte(img, k * bpp + 1)
             b == PngByte(img, k * bpp + 2)
         IN  BitOr(BitOr(g, r * 2^8), b * 2^16)

\* lines 717-742: channel_values[k], k 0-based, for a supported colour type
channel_value(img, k) ==
    IF img.color = "Grayscale"
    THEN PngByte(img, k)
    ELSE LET bpp == BytesPerPixel(img.color)
             r == PngByte(img, k * bpp)
             g == PngByte(img, k * bpp + 1)
             b == PngByte(img, k * bpp + 2)
         IN  BitOr(BitOr(r, g * 2^8), b * 2^16)

\* a faulty variant of chunk_pixel that C26 tells apart: the pixels of a
\* chunk are listed column by column
chunk_pixel_by_column(channel_values, dimension, chunk_size, chunk_idx, i) ==
    LET chunks_per_dim == dimension \div chunk_size
        chunk_row == chunk_idx \div chunks_per_dim
        chunk_col == chunk_idx % chunks_per_dim
        base_y == chunk_row * chunk_size
        base_x == chunk_col * chunk_size
        py == i % chunk_size
        px == i \div chunk_size
        img_x == base_x + px
        img_y == base_y + py
    IN  At(channel_values, img_y * dimension + img_x)

\* lines 767-780: chunk_pixels[i] of chunk chunk_idx, i 0-based
chunk_pixel(channel_values, dimension, chunk_size, chunk_idx, i) ==
    LET chunks_per_dim == dimension \div chunk_size
        chunk_row == chunk_idx \div chunks_per_dim
        chunk_col == chunk_idx % chunks_per_dim
        base_y == chunk_row * chunk_size
        base_x == chunk_col * chunk_size
        py == i \div chunk_size
        px == i % chunk_size
        img_x == base_x + px
        img_y == base_y + py
    IN  At(channel_values, img_y * dimension + img_x)

\* lines 786-791: ((v >> shift) & mask) as u16 with mask = (1u32 << range_bits) - 1;
\* a shift amount of 32 or more overflows and is taken modulo 32 without
\* overflow checks. The values are below 2^31, so that a shift by 31 leaves 0
\* and a mask of 31 bits keeps everything.
range_value(v, shift, range_bits) ==
    LET s == shift % 32
        m == range_bits % 32
        shifted == IF s >= 31 THEN 0 ELSE v \div 2^s
    IN  as_u16(IF m >= 31 THEN shifted ELSE shifted % 2^m)

\* a faulty variant of range_shift that C16 tells apart: no range is shifted
range_shift_zero(bits_per_range, range_idx) == 0

\* the shift of range range_idx (0-based): the bits of the ranges before it
RECURSIVE range_shift(_, _)
range_shift(bits_per_range, range_idx) ==
    IF range_idx = 0 THEN 0
    ELSE range_shift(bits_per_range, range_idx - 1) + bits_per_range[range_idx]

\* a faulty variant of gdm_range_block that C22 tells apart: shift is not
\* set back to 0 for a new chunk, it goes on from the chunks before
gdm_range_block_shift_kept(channel_values, dimension, chunk_size, bits_per_range, chunk_idx, range_idx) ==
    LET shift == range_shift(bits_per_range, range_idx)
                 + chunk_idx * range_shift(bits_per_range, Len(bits_per_range))
        range_bits == bits_per_range[range_idx + 1]
        range_pixels ==
            collect([i \in 1..(chunk_size * chunk_size) |->
                        range_value(chunk_pixel(channel_values, dimension, chunk_size,
                                                chunk_idx, i - 1),
                                    shift, range_bits)])
    IN  encode_gdm_block(range_pixels, chunk_size)

\* lines 784-798: the block of one range of one chunk
gdm_range_block(channel_values, dimension, chunk_size, bits_per_range, chunk_idx, range_idx) ==
    LET shift == range_shift(bits_per_range, range_idx)
        range_bits == bits_per_range[range_idx + 1]
        range_pixels ==
            collect([i \in 1..(chunk_size * chunk_size) |->
                        range_value(chunk_pixel(channel_values, dimension, chunk_size,
                                                chunk_idx, i - 1),
                                    shift, range_bits)])
    IN  encode_gdm_block(range_pixels, chunk_size)

\* lines 766-799: the blocks of chunks chunk_idx.., range range_idx.., in file order
RECURSIVE gdm_blocks(_, _, _, _, _, _)
gdm_blocks(channel_values, dimension, chunk_size, bits_per_range, chunk_idx, range_idx) ==
    LET chunks_per_dim == dimension \div chunk_size
    IN  IF chunk_idx >= chunks_per_dim * chunks_per_dim THEN <<>>
        ELSE IF range_idx >= Len(bits_per_range)
        THEN gdm_blocks(channel_values, dimension, chunk_size, bits_per_range,
                        chunk_idx + 1, 0)
        ELSE gdm_range_block(channel_values, dimension, chunk_size, bits_per_range,
                             chunk_idx, range_idx)
             \o gdm_blocks(channel_values, dimension, chunk_size, bits_per_range,
                           chunk_idx, range_idx + 1)

\* lines 782-798: the blocks of all ranges of one chunk
gdm_chunk_blocks(channel_values, dimension, chunk_size, bits_per_range, chunk_idx) ==
    LET RECURSIVE from(_)
        from(range_idx) ==
            IF range_idx >= Len(bits_per_range) THEN <<>>
            ELSE gdm_range_block(channel_values, dimension, chunk_size,
                                 bits_per_range, chunk_idx, range_idx)
                 \o from(range_idx + 1)
    IN  from(0)

\* a faulty variant of gdm_header that C13 tells apart: the boundary byte of
\* a two-range layout is left out
gdm_header_no_boundary(dim_log2, chunk_log2, num_channels, compression_channels) ==
    <<34, 77, 68, 70>> \o <<0, 0, 0, 0>>
    \o <<as_u8(dim_log2), as_u8(chunk_log2), 2, as_u8(num_channels),
         as_u8(IF compression_channels.some THEN 2 ELSE 1), 0, 0, 0>>

\* lines 748-763: the header and the compression boundaries
gdm_header(dim_log2, chunk_log2, num_channels, compression_channels) ==
    <<34, 77, 68, 70>> \o <<0, 0, 0, 0>>
    \o <<as_u8(dim_log2), as_u8(chunk_log2), 2, as_u8(num_channels),
         as_u8(IF compression_channels.some THEN 2 ELSE 1), 0, 0, 0>>
    \o (IF compression_channels.some
        THEN <<as_u8(compression_channels.value)>> ELSE <<>>)

\* the overflows of lines 709, 786 and 791
gdm_encode_overflows(num_channels, compression_channels) ==
    LET bits_per_range == gdm_bits_per_range(num_channels, compression_channels)
    IN  \/ compression_channels.some /\ compression_channels.value > num_channels
        \/ \E k \in 1..Len(bits_per_range) :
              \/ bits_per_range[k] < 0
              \/ bits_per_range[k] >= 32
              \/ range_shift(bits_per_range, k - 1) >= 32

\* the value convert_png_to_gdm computes up to File::create
convert_png_to_gdm(img, params) ==
    IF img.width # img.height
    THEN [result |-> "GDM requires square dimensions", ovf |-> FALSE, output |-> <<>>]
    ELSE IF gdm_bad_dimension(img.width)
    THEN [result |-> "Dimension must be power of 2 >= 32", ovf |-> FALSE,
          output |-> <<>>]
    ELSE LET dimension == img.width
             dim_log2 == gdm_dim_log2(dimension)
             chunk_size == 32
             chunk_log2 == 5
             num_channels == params.num_channels
             compression_channels == params.compression_channels
             bits_per_range == gdm_bits_per_range(num_channels, compression_channels)
             channel_values ==
                 collect([k \in 1..(img.width * img.height) |->
                             channel_value(img, k - 1)])
         IN  IF ~SupportedColor(img.color)
             THEN [result |-> "Unsupported PNG color type",
                   ovf |-> compression_channels.some
                           /\ compression_channels.value > num_channels,
                   output |-> <<>>]
             ELSE [result |-> "Ok",
                   ovf |-> gdm_encode_overflows(num_channels, compression_channels),
                   output |-> gdm_header(dim_log2, chunk_log2, num_channels,
                                         compression_channels)
                              \o gdm_blocks(channel_values, dimension, chunk_size,
                                            bits_per_range, 0, 0)]

----------------------------------------------------------------------------
(* PACKED-DENSITY file decoder: convert_gdm_to_png *)

read_u32_le(data, offset) ==
    At(data, offset) + 256 * At(data, offset + 1) + 65536 * At(data, offset + 2)
    + 16777216 * At(data, offset + 3)

\* line 454; the variant is "\"MDF", "!MDF" or "none"
gdm_magic(data) ==
    IF SubSeq(data, 1, 4) = <<34, 77, 68, 70>> THEN "\"MDF"
    ELSE IF SubSeq(data, 1, 4) = <<33, 77, 68, 70>> THEN "!MDF"
    ELSE "none"

\* a faulty variant of gdm_version_ok that C5 tells apart: only the low byte
\* of the version field is compared
gdm_version_low_byte(data) == At(data, 4) = 0

\* line 461
gdm_version_ok(data) == read_u32_le(data, 4) = 0

\* lines 458-484
gdm_parse_header(data) ==
    IF gdm_magic(data) = "\"MDF"
    THEN [dimension |-> 2^(At(data, 8) + 5), chunk_size |-> 2^At(data, 9),
          num_channels |-> At(data, 11), num_compression_ranges |-> At(data, 12),
          header_size |-> 16]
    ELSE [dimension |-> 2^(At(data, 4) + 5), chunk_size |-> 2^At(data, 5),
          num_channels |-> At(data, 7), num_compression_ranges |-> At(data, 8),
          header_size |-> 9]

\* lines 489-493: compression_boundaries
gdm_boundaries(data, h) ==
    <<0>>
    \o [i \in 1..(IF h.num_compression_ranges >= 1
                  THEN h.num_compression_ranges - 1 ELSE 0) |->
           At(data, h.header_size + i - 1)]
    \o <<as_u8(h.num_channels)>>

\* lines 495-500: bits_per_range (a wrapped usize kept as a negative number)
gdm_decode_bits_per_range(data, h) ==
    LET compression_boundaries == gdm_boundaries(data, h)
    IN  [i \in 1..h.num_compression_ranges |->
            compression_boundaries[i + 1] - compression_boundaries[i]]

\* lines 518-526 for every chunk: range_values of all chunks in file order;
\* "truncated" is the error of line 520, "oob" a panic inside decode_gdm_block
RECURSIVE scan_blocks(_, _, _, _, _, _)
scan_blocks(data, pos, remaining, chunk_size, range_values, ovf) ==
    IF remaining = 0
    THEN [status |-> "ok", ovf |-> ovf, range_values |-> range_values, pos |-> pos]
    ELSE IF pos + 2 > Len(data)
    THEN [status |-> "truncated", ovf |-> ovf, range_values |-> range_values,
          pos |-> pos]
    ELSE LET b == decode_gdm_block(data, pos, chunk_size)
         IN  IF b.status = "oob"
             THEN [status |-> "oob", ovf |-> ovf \/ b.ovf,
                   range_values |-> range_values, pos |-> pos]
             ELSE scan_blocks(data, pos + b.block_size, remaining - 1, chunk_size,
                              Append(range_values, b.pixels), ovf \/ b.ovf)

\* val << shift on u32 (val a u16); without overflow checks the shift amount is
\* taken modulo 32 and the bits above bit 31 are dropped
shl_u32(val, shift) ==
    LET s == shift % 32
    IN  IF s <= 16 THEN val * 2^s ELSE (val % 2^(32 - s)) * 2^s

\* lines 534-540: the combined value of pixel pixel_idx of chunk chunk_idx
RECURSIVE combine_ranges(_, _, _, _, _)
combine_ranges(range_values, bits_per_range, chunk_idx, pixel_idx, range_idx) ==
    IF range_idx >= Len(bits_per_range) THEN 0
    ELSE LET pixels == range_values[chunk_idx * Len(bits_per_range) + range_idx + 1]
             val == At(pixels, pixel_idx)
         IN  BitOr(shl_u32(val, range_shift(bits_per_range, range_idx)),
                   combine_ranges(range_values, bits_per_range, chunk_idx,
                                  pixel_idx, range_idx + 1))

\* lines 528-545 and 552, 557: img_y * dimension + img_x, the pixel of the
\* image that pixel pixel_idx of chunk chunk_idx is written to
gdm_img_idx(dimension, chunk_size, chunk_idx, pixel_idx) ==
    LET chunks_per_dim == dimension \div chunk_size
        chunk_row == chunk_idx \div chunks_per_dim
        chunk_col == chunk_idx % chunks_per_dim
        base_y == chunk_row * chunk_size
        base_x == chunk_col * chunk_size
        py == pixel_idx \div chunk_size
        px == pixel_idx % chunk_size
        img_x == base_x + px
        img_y == base_y + py
    IN  img_y * dimension + img_x

\* lines 528-545, read backwards: the (chunk_idx, pixel_idx) whose
\* (img_y, img_x) is image position p
gdm_writer_of(p, dimension, chunk_size) ==
    LET chunks_per_dim == dimension \div chunk_size
        img_y == p \div dimension
        img_x == p % dimension
    IN  [chunk_idx |-> ((img_y \div chunk_size) * chunks_per_dim) + (img_x \div chunk_size),
         pixel_idx |-> ((img_y % chunk_size) * chunk_size) + (img_x % chunk_size)]

\* a faulty variant of gdm_use_rgb that C9 tells apart: RGB output from 8
\* channels on
gdm_use_rgb_from_8(num_channels) == num_channels >= 8

\* line 508
gdm_use_rgb(num_channels) == num_channels > 8

\* lines 547-558: the bytes of image holding a pixel of the given combined value
gdm_pixel_bytes(combined, use_rgb) ==
    IF use_rgb
    THEN <<combined % 256, (combined \div 256) % 256, (combined \div 65536) % 256>>
    ELSE <<combined % 256>>

\* the value convert_gdm_to_png computes up to File::create
convert_gdm_to_png(data) ==
    LET fail(r, o) == [result |-> r, ovf |-> o, combined |-> <<>>, image |-> NoImage]
    IN
    IF Len(data) < 16 THEN fail("File too small", FALSE)
    ELSE IF gdm_magic(data) = "none" THEN fail("Not a valid GDM file", FALSE)
    ELSE IF gdm_magic(data) = "\"MDF" /\ ~gdm_version_ok(data)
    THEN fail("Unsupported GDM version", FALSE)
    ELSE LET h == gdm_parse_header(data)
             num_ranges == h.num_compression_ranges
             boundaries_size == IF num_ranges > 1 THEN num_ranges - 1 ELSE 0
             data_start == h.header_size + boundaries_size
         IN  IF data_start > Len(data) THEN fail("Panic", FALSE)
             ELSE
             LET bits_per_range == gdm_decode_bits_per_range(data, h)
                 range_ovf == \E k \in 1..num_ranges : bits_per_range[k] < 0
                 chunks_per_dim == h.dimension \div h.chunk_size
                 total_chunks == chunks_per_dim * chunks_per_dim
                 use_rgb == gdm_use_rgb(h.num_channels)
                 bytes_per_pixel == IF use_rgb THEN 3 ELSE 1
                 scan == scan_blocks(data, data_start, total_chunks * num_ranges,
                                     h.chunk_size, <<>>, range_ovf)
                 shift_ovf == /\ Len(scan.range_values) >= num_ranges
                              /\ \E k \in 1..num_ranges :
                                    range_shift(bits_per_range, k - 1) >= 32
                 combined_at(p) ==
                     LET w == gdm_writer_of(p, h.dimension, h.chunk_size)
                     IN  IF chunks_per_dim = 0 THEN 0
                         ELSE combine_ranges(scan.range_values, bits_per_range,
                                             w.chunk_idx, w.pixel_idx, 0)
                 combined == collect([p \in 1..(h.dimension * h.dimension) |->
                                         combined_at(p - 1)])
             IN  IF scan.status = "truncated"
                 THEN fail("Unexpected end of data", scan.ovf \/ shift_ovf)
                 ELSE IF scan.status = "oob"
                 THEN fail("Panic", scan.ovf \/ shift_ovf)
                 ELSE [result |-> "Ok", ovf |-> scan.ovf \/ shift_ovf,
                       combined |-> combined,
                       image |-> [width |-> h.dimension, height |-> h.dimension,
                                  color |-> IF use_rgb THEN "Rgb" ELSE "Grayscale",
                                  data |-> collect(
                                      [k \in 1..(h.dimension * h.dimension
                                                   * bytes_per_pixel) |->
                                          gdm_pixel_bytes(
                                              combined[((k - 1) \div bytes_per_pixel) + 1],
                                              use_rgb)[((k - 1) % bytes_per_pixel) + 1]])]]

----------------------------------------------------------------------------
(* Strings: a str is the sequence of its characters; all text is ASCII, so
   byte offsets and character offsets agree *)

\* Option<&str>, Option<String>
NoStr == [some |-> FALSE, value |-> <<>>]
SomeStr(s) == [some |-> TRUE, value |-> s]

\* str::contains(pat)
contains(s, pat) ==
    \E i \in 1..(Len(s) - Len(pat) + 1) : SubSeq(s, i, i + Len(pat) - 1) = pat

\* str::find(pat): the 0-based offset of the first match
find(s, pat) ==
    IF contains(s, pat)
    THEN Some(SetMin({i \in 1..(Len(s) - Len(pat) + 1) :
                         SubSeq(s, i, i + Len(pat) - 1) = pat}) - 1)
    ELSE None

starts_with(s, pat) == Len(s) >= Len(pat) /\ SubSeq(s, 1, Len(pat)) = pat
ends_with(s, pat) ==
    Len(s) >= Len(pat) /\ SubSeq(s, Len(s) - Len(pat) + 1, Len(s)) = pat

\* &s[start..] and &s[..end]
slice_from(s, start) == SubSeq(s, start + 1, Len(s))
slice_to(s, end) == SubSeq(s, 1, end)

Digits == <<"0", "1", "2", "3", "4", "5", "6", "7", "8", "9">>
digit_value(c) == (CHOOSE k \in 1..10 : Digits[k] = c) - 1

RECURSIVE digits_value(_)
digits_value(s) ==
    IF Len(s) = 0 THEN 0
    ELSE digits_value(SubSeq(s, 1, Len(s) - 1)) * 10 + digit_value(s[Len(s)])

\* str::parse::<usize>().ok(): an optional '+' and at least one digit; the
\* texts of the model stay far below usize::MAX
parse_usize(s) ==
    LET d == IF Len(s) > 0 /\ s[1] = "+" THEN Tail(s) ELSE s
    IN  IF Len(d) > 0 /\ \A k \in 1..Len(d) : \E j \in 1..10 : Digits[j] = d[k]
        THEN Some(digits_value(d))
        ELSE None

Upper == <<"A", "B", "C", "D", "E", "F", "G", "H", "I", "J", "K", "L", "M", "N", "O", "P", "Q", "R", "S", "T", "U", "V", "W", "X", "Y", "Z">>
Lower == <<"a", "b", "c", "d", "e", "f", "g", "h", "i", "j", "k", "l", "m", "n", "o", "p", "q", "r", "s", "t", "u", "v", "w", "x", "y", "z">>

\* str::to_lowercase()
to_lowercase(s) ==
    [k \in 1..Len(s) |->
        IF \E j \in 1..26 : Upper[j] = s[k]
        THEN Lower[CHOOSE j \in 1..26 : Upper[j] = s[k]]
        ELSE s[k]] \o <<>>

\* Path::file_name(): the text after the last '/'
file_name(path) ==
    LET seps == {i \in 1..Len(path) : path[i] = "/"}
        name == IF seps = {} THEN path ELSE SubSeq(path, SetMax(seps) + 1, Len(path))
    IN  IF name = <<>> \/ name = <<".", ".">> THEN NoStr ELSE SomeStr(name)

\* the offset of the dot that splits stem and extension, 0 if there is none
\* (a leading dot does not split)
extension_dot(name) ==
    LET dots == {i \in 2..Len(name) : name[i] = "."}
    IN  IF dots = {} THEN 0 ELSE SetMax(dots)

\* Path::extension()
extension(path) ==
    LET name == file_name(path)
    IN  IF ~name.some \/ extension_dot(name.value) = 0 THEN NoStr
        ELSE SomeStr(SubSeq(name.value, extension_dot(name.value) + 1,
                            Len(name.value)))

\* Path::file_stem()
file_stem(path) ==
    LET name == file_name(path)
    IN  IF ~name.some THEN NoStr
        ELSE IF extension_dot(name.value) = 0 THEN name
        ELSE SomeStr(SubSeq(name.value, 1, extension_dot(name.value) - 1))

----------------------------------------------------------------------------
(* The channel-layout resolver: parse_i3d_for_file and extract_attr.  The
   descriptor is the sequence of the lines content.lines() yields. *)

LayerParams(layer_type, num_channels, compression_channels) == [layer_type |-> layer_type, num_channels |-> num_channels, compression_channels |-> compression_channels]

\* Option<LayerParams>
NoParams == [some |-> FALSE, value |-> LayerParams("none", 0, None)]
SomeParams(p) == [some |-> TRUE, value |-> p]

QUOTE == <<"\"">>

extract_attr(line, attr_name) ==
    LET pattern == attr_name \o <<"=", "\"">>
        start == find(line, pattern)
        rest == slice_from(line, start.value + Len(pattern))
        end == find(rest, QUOTE)
    IN  IF start.some /\ end.some
        THEN parse_usize(slice_to(rest, end.value))
        ELSE None

\* the first line (1-based) of lines that is in the set hits, 0 if none
first_of(hits) == IF hits = {} THEN 0 ELSE SetMin(hits)

\* lines 62-67
target_png_of(target_basename) ==
    IF ends_with(target_basename, <<".", "p", "n", "g">>)
    THEN SomeStr(target_basename)
    ELSE LET stem == file_stem(target_basename)
         IN  IF stem.some THEN SomeStr(stem.value \o <<".", "p", "n", "g">>) ELSE NoStr

\* the text between fileId=" and the next quote, if the line has both
file_id_of(line) ==
    LET start == find(line, <<"f", "i", "l", "e", "I", "d", "=", "\"">>)
        rest == slice_from(line, start.value + 8)
        end == find(rest, QUOTE)
    IN  IF start.some /\ end.some THEN SomeStr(slice_to(rest, end.value))
        ELSE NoStr

\* lines 72-85: the fileId of the first <File line naming target_png
find_file_id(lines, target_png) ==
    LET k == first_of({j \in 1..Len(lines) :
                          /\ contains(lines[j], <<"<", "F", "i", "l", "e">>)
                          /\ contains(lines[j], target_png)
                          /\ file_id_of(lines[j]).some})
    IN  IF k = 0 THEN NoStr ELSE file_id_of(lines[k])

\* lines 91-103
info_layer_line(lines, file_id) ==
    first_of({j \in 1..Len(lines) :
                 /\ contains(lines[j], <<"<", "I", "n", "f", "o", "L", "a", "y", "e", "r">>)
                 /\ contains(lines[j], <<"f", "i", "l", "e", "I", "d", "=", "\"">> \o file_id \o QUOTE)
                 /\ extract_attr(lines[j], <<"n", "u", "m", "C", "h", "a", "n", "n", "e", "l", "s">>).some})

\* lines 106-107
detail_layer_line(lines, file_id) ==
    first_of({j \in 1..Len(lines) :
                 /\ contains(lines[j], <<"<", "D", "e", "t", "a", "i", "l", "L", "a", "y", "e", "r">>)
                 /\ contains(lines[j], <<"d", "e", "n", "s", "i", "t", "y", "M", "a", "p", "I", "d", "=", "\"">> \o file_id \o QUOTE)})

\* lines 121-122
foliage_layer_line(lines, file_id) ==
    first_of({j \in 1..Len(lines) :
                 /\ contains(lines[j], <<"<", "F", "o", "l", "i", "a", "g", "e", "M", "u", "l", "t", "i", "L", "a", "y", "e", "r">>)
                 /\ contains(lines[j], <<"d", "e", "n", "s", "i", "t", "y", "M", "a", "p", "I", "d", "=", "\"">> \o file_id \o QUOTE)})

\* lines 108-116 and 123-131: the layout of a density-map element line, None
\* when the channel attribute is missing
gdm_layer_params(line, channels_attr) ==
    LET num_channels == extract_attr(line, channels_attr)
    IN  IF ~num_channels.some THEN NoParams
        ELSE SomeParams(LayerParams("GdmLayer", num_channels.value,
                                    extract_attr(line, <<"c", "o", "m", "p", "r", "e", "s", "s", "i", "o", "n", "C", "h", "a", "n", "n", "e", "l", "s">>)))

\* content: what read_to_string(i3d_path).ok() gave, NoContent if it failed
NoContent == [some |-> FALSE, value |-> <<>>]
SomeContent(lines) == [some |-> TRUE, value |-> lines]

parse_i3d_for_file(content, target_filename) ==
    LET lines == content.value
        target_basename == file_name(target_filename)
        target_png == target_png_of(target_basename.value)
        file_id == find_file_id(lines, target_png.value)
        info == info_layer_line(lines, file_id.value)
        detail == detail_layer_line(lines, file_id.value)
        foliage == foliage_layer_line(lines, file_id.value)
    IN  IF ~content.some \/ ~target_basename.some \/ ~target_png.some
           \/ ~file_id.some
        THEN NoParams
        ELSE IF info # 0
        THEN SomeParams(LayerParams("InfoLayer",
                                    extract_attr(lines[info], <<"n", "u", "m", "C", "h", "a", "n", "n", "e", "l", "s">>).value,
                                    None))
        ELSE IF detail # 0
        THEN gdm_layer_params(lines[detail], <<"n", "u", "m", "D", "e", "n", "s", "i", "t", "y", "M", "a", "p", "C", "h", "a", "n", "n", "e", "l", "s">>)
        ELSE IF foliage # 0
        THEN gdm_layer_params(lines[foliage], <<"n", "u", "m", "C", "h", "a", "n", "n", "e", "l", "s">>)
        ELSE NoParams

----------------------------------------------------------------------------
(* main: the command line, the parameter resolution and the dispatch *)

\* the variables of the argument loop, lines 843-847; exit is the exit code
\* of a process::exit inside the loop, -1 while there was none
ArgsStart == [input_path |-> NoStr, output_path |-> NoStr, i3d_path |-> NoStr, manual_channels |-> None, manual_compress_at |-> None, exit |-> -1]

\* lines 849-887; args holds the command line without the program name, i is
\* 0-based in it
RECURSIVE parse_args(_, _, _)
parse_args(params, i, st) ==
    IF i >= Len(params) \/ st.exit # -1 THEN st
    ELSE LET arg == At(params, i)
             has_value == i + 1 < Len(params)
         IN  IF arg = <<"-", "-", "i", "3", "d">>
             THEN parse_args(params, i + 2,
                      IF has_value
                      THEN [st EXCEPT !.i3d_path = SomeStr(At(params, i + 1))]
                      ELSE st)
             ELSE IF arg = <<"-", "-", "c", "h", "a", "n", "n", "e", "l", "s">>
             THEN parse_args(params, i + 2,
                      IF has_value
                      THEN [st EXCEPT !.manual_channels =
                                          parse_usize(At(params, i + 1))]
                      ELSE st)
             ELSE IF arg = <<"-", "-", "c", "o", "m", "p", "r", "e", "s", "s", "-", "a", "t">>
             THEN parse_args(params, i + 2,
                      IF has_value
                      THEN [st EXCEPT !.manual_compress_at =
                                          parse_usize(At(params, i + 1))]
                      ELSE st)
             ELSE IF arg = <<"-", "-", "h", "e", "l", "p">> \/ arg = <<"-", "h">>
             THEN [st EXCEPT !.exit = 0]
             ELSE IF ~starts_with(arg, <<"-">>)
             THEN parse_args(params, i + 1,
                      IF ~st.input_path.some
                      THEN [st EXCEPT !.input_path = SomeStr(arg)]
                      ELSE IF ~st.output_path.some
                      THEN [st EXCEPT !.output_path = SomeStr(arg)]
                      ELSE st)
             ELSE [st EXCEPT !.exit = 1]

\* the lower-cased extension of a path, "" if it has none
lower_ext(path) ==
    IF extension(path).some THEN to_lowercase(extension(path).value) ELSE <<>>

\* lines 945-951
explicit_grle_of(output_path) ==
    output_path.some /\ lower_ext(output_path.value) = <<"g", "r", "l", "e">>

\* a faulty variant of determine_params that C11 tells apart: the manual
\* channel count goes before the layout of the descriptor
determine_params_manual_first(i3d_params, manual_channels, manual_compress_at, filename, explicit_grle) ==
    IF manual_channels.some
    THEN SomeParams(LayerParams(
             IF contains(filename, <<"i", "n", "f", "o", "L", "a", "y", "e", "r">>) \/ explicit_grle
             THEN "InfoLayer" ELSE "GdmLayer",
             manual_channels.value, manual_compress_at))
    ELSE IF i3d_params.some THEN i3d_params
    ELSE IF explicit_grle
    THEN SomeParams(LayerParams("InfoLayer", 1, None))
    ELSE NoParams

\* lines 954-986: the parameters main encodes with, NoParams where it exits
determine_params(i3d_params, manual_channels, manual_compress_at, filename, explicit_grle) ==
    IF i3d_params.some THEN i3d_params
    ELSE IF manual_channels.some
    THEN SomeParams(LayerParams(
             IF contains(filename, <<"i", "n", "f", "o", "L", "a", "y", "e", "r">>) \/ explicit_grle
             THEN "InfoLayer" ELSE "GdmLayer",
             manual_channels.value, manual_compress_at))
    ELSE IF explicit_grle
    THEN SomeParams(LayerParams("InfoLayer", 1, None))
    ELSE NoParams

\* a faulty variant of output_and_format that C30 tells apart: the format
\* follows the resolved layer type also when an output path is given
output_and_format_by_layer(input_path, output_path, layer_type) ==
    IF output_path.some
    THEN [output |-> output_path.value, use_grle |-> layer_type = "InfoLayer"]
    ELSE IF layer_type = "InfoLayer"
    THEN [output |-> file_stem(input_path).value \o <<".", "g", "r", "l", "e">>, use_grle |-> TRUE]
    ELSE [output |-> file_stem(input_path).value \o <<".", "g", "d", "m">>, use_grle |-> FALSE]

\* lines 989-1003: the output path and whether the RLE-LAYER encoder is used
output_and_format(input_path, output_path, layer_type) ==
    IF output_path.some
    THEN [output |-> output_path.value,
          use_grle |-> lower_ext(output_path.value) = <<"g", "r", "l", "e">>]
    ELSE IF layer_type = "InfoLayer"
    THEN [output |-> file_stem(input_path).value \o <<".", "g", "r", "l", "e">>, use_grle |-> TRUE]
    ELSE [output |-> file_stem(input_path).value \o <<".", "g", "d", "m">>, use_grle |-> FALSE]

\* what a run of main did: its exit code, the parameters it resolved, the
\* conversion it called and the output path it passed to it
Run(exit_code, params, call, output) == [exit_code |-> exit_code, params |-> params, call |-> call, output |-> output]
NoRun == Run(-1, NoParams, "none", <<>>)

\* lines 1020-1023 and the panic of a conversion: the exit code after the
\* conversion returned conv
exit_code_of(conv) ==
    IF conv = "Ok" THEN 0 ELSE IF conv = "Err" THEN 1 ELSE 101

\* lines 926-942: the descriptor main reads, the one named by --i3d or else
\* the one find_i3d_file finds
i3d_content(i3d_path, files) ==
    IF i3d_path.some THEN files.given ELSE files.nearby

\* main on the command line params with the files it finds; conv is what the
\* conversion it calls returns
main(params, files, conv) ==
    LET st == parse_args(params, 0, ArgsStart)
        input_path == st.input_path.value
        input_ext == lower_ext(input_path)
        decoded_name == IF st.output_path.some THEN st.output_path.value
                        ELSE file_stem(input_path).value \o <<".", "p", "n", "g">>
        filename == IF file_name(input_path).some
                    THEN file_name(input_path).value ELSE input_path
        explicit_grle == explicit_grle_of(st.output_path)
        resolved == determine_params(
                        parse_i3d_for_file(i3d_content(st.i3d_path, files), filename),
                        st.manual_channels, st.manual_compress_at, filename,
                        explicit_grle)
        out == output_and_format(input_path, st.output_path,
                                 resolved.value.layer_type)
    IN  IF Len(params) = 0 THEN Run(1, NoParams, "none", <<>>)
        ELSE IF st.exit # -1 THEN Run(st.exit, NoParams, "none", <<>>)
        ELSE IF ~st.input_path.some THEN Run(1, NoParams, "none", <<>>)
        ELSE IF input_ext = <<"g", "r", "l", "e">>
        THEN Run(exit_code_of(conv), NoParams, "convert_grle_to_png", decoded_name)
        ELSE IF input_ext = <<"g", "d", "m">>
        THEN Run(exit_code_of(conv), NoParams, "convert_gdm_to_png", decoded_name)
        ELSE IF input_ext = <<"p", "n", "g">>
        THEN IF ~resolved.some THEN Run(1, NoParams, "none", <<>>)
             ELSE Run(exit_code_of(conv), resolved,
                      IF out.use_grle THEN "convert_png_to_grle"
                      ELSE "convert_png_to_gdm",
                      out.output)
        ELSE Run(1, NoParams, "none", <<>>)

NoFiles == [given |-> NoContent, nearby |-> NoContent]

\* no run of main is modelled
MainOff ==
    /\ main_pc = "off"
    /\ argv = <<>>
    /\ fs = NoFiles
    /\ main_out = NoRun

\* no conversion is modelled
FileOff ==
    /\ pc = "off"
    /\ target = "none"
    /\ png_in = NoImage
    /\ args = [num_channels |-> 0, compression_channels |-> None]
    /\ existing = FALSE
    /\ bin = [state |-> "absent", data |-> <<>>]
    /\ png = [state |-> "absent", image |-> NoImage]
    /\ enc_result = "none"
    /\ dec_result = "none"
    /\ damage = {}
    /\ decoded = <<>>

\* no RLE call is modelled
RleOff ==
    /\ rle_pc = "off"
    /\ rle_pixels = <<>>
    /\ rle_payload = <<>>
    /\ rle_decoded = <<>>
    /\ rle_i = 0
    /\ rle_expected_size = 0

\* no length field is modelled
SizeOff == payload_len = 0 /\ size_field = <<>>

\* no chunk-wise encoding is modelled
ChunksOff ==
    /\ chunks_pc = "off"
    /\ chunks_case = [target |-> "none", img |-> NoImage,
                      params |-> [num_channels |-> 0, compression_channels |-> None]]
    /\ order = <<>>
    /\ chunk_blocks = <<>>
    /\ stream = <<>>

----------------------------------------------------------------------------
(* Spec: a PNG is converted to a binary file, the file is possibly damaged,
   and the file is converted back *)

Img(w, h, c, p, b) == [width |-> w, height |-> h, color |-> c, pat |-> p, bits |-> b]
Par(n, c) == [num_channels |-> n, compression_channels |-> c]
Case(t, i, q) == [target |-> t, img |-> i, params |-> q]

\* PACKED-DENSITY conversions: accepted images in one- and two-range layouts
GdmGoodCases ==
    { Case("gdm", Img(32, 32, "Grayscale", "uniform", 8), Par(8, None)),
      Case("gdm", Img(32, 32, "Grayscale", "halves", 8), Par(4, None)),
      Case("gdm", Img(32, 32, "Grayscale", "quads", 8), Par(4, None)),
      Case("gdm", Img(32, 32, "Grayscale", "quads", 8), Par(3, None)),
      Case("gdm", Img(32, 32, "Grayscale", "thirds", 8), Par(4, None)),
      Case("gdm", Img(32, 32, "Grayscale", "ramp", 8), Par(8, None)),
      Case("gdm", Img(32, 32, "Grayscale", "ramp", 8), Par(8, Some(3))),
      Case("gdm", Img(32, 32, "Grayscale", "ramp", 8), Par(4, None)),
      Case("gdm", Img(32, 32, "Rgb", "ramp", 8), Par(8, None)),
      Case("gdm", Img(32, 32, "Rgb", "ramp", 24), Par(8, None)),
      Case("gdm", Img(32, 32, "Rgba", "ramp", 24), Par(8, Some(3))),
      Case("gdm", Img(32, 32, "Rgb", "ramp", 24), Par(5, Some(2))),
      Case("gdm", Img(32, 32, "Rgb", "ramp", 9), Par(9, None)),
      Case("gdm", Img(32, 32, "Rgb", "ramp", 10), Par(10, None)),
      Case("gdm", Img(32, 32, "Rgb", "ramp", 16), Par(16, Some(8))),
      Case("gdm", Img(32, 32, "Rgba", "ramp", 20), Par(20, Some(10))),
      Case("gdm", Img(32, 32, "Rgb", "ramp", 11), Par(11, None)),
      Case("gdm", Img(32, 32, "Rgb", "ramp", 12), Par(12, None)),
      Case("gdm", Img(32, 32, "Rgb", "ramp", 12), Par(12, Some(4))),
      Case("gdm", Img(32, 32, "Rgb", "ramp", 16), Par(16, None)),
      Case("gdm", Img(32, 32, "Rgba", "ramp", 24), Par(24, Some(8))),
      Case("gdm", Img(32, 32, "Rgba", "quads", 8), Par(12, None)),
      Case("gdm", Img(32, 32, "Grayscale", "ramp", 8), Par(12, None)),
      Case("gdm", Img(32, 32, "Grayscale", "halves", 8), Par(16, None)),
      Case("gdm", Img(64, 64, "Grayscale", "mixed", 8), Par(8, Some(3))),
      Case("gdm", Img(64, 64, "Rgb", "mixed", 24), Par(8, None)),
      Case("gdm", Img(128, 128, "Grayscale", "mixed", 8), Par(8, None)) }

\* PACKED-DENSITY conversions the encoder refuses or that leave the valid
\* layouts: sides that are no power of two >= 32, a colour type it has no case
\* for, a split above numChannels, a split that leaves a range empty, more
\* than 24 channels
GdmBadCases ==
    { Case("gdm", Img(d[1], d[2], "Grayscale", "uniform", 8), Par(8, None)) :
        d \in {<<1, 1>>, <<16, 16>>, <<31, 31>>, <<48, 48>>, <<96, 96>>,
               <<32, 64>>, <<64, 32>>} }
    \cup
    { Case("gdm", Img(48, 48, "Rgb", "ramp", 12), Par(12, None)),
      Case("gdm", Img(32, 32, "GrayscaleAlpha", "uniform", 8), Par(8, None)),
      Case("gdm", Img(48, 48, "GrayscaleAlpha", "uniform", 8), Par(8, None)),
      Case("gdm", Img(32, 32, "Grayscale", "ramp", 8), Par(8, Some(9))),
      Case("gdm", Img(32, 32, "Grayscale", "ramp", 8), Par(8, Some(8))),
      Case("gdm", Img(32, 32, "Grayscale", "ramp", 8), Par(8, Some(0))),
      Case("gdm", Img(32, 32, "Rgba", "ramp", 24), Par(25, None)) }

\* RLE-LAYER conversions
GrleCases ==
    { Case("grle", Img(256, 256, "Grayscale", "zero", 8), Par(1, None)),
      Case("grle", Img(256, 256, "Grayscale", "bands", 8), Par(1, None)),
      Case("grle", Img(256, 256, "Rgb", "bands", 24), Par(1, None)),
      Case("grle", Img(256, 256, "Rgba", "bands", 24), Par(1, None)),
      Case("grle", Img(256, 256, "Grayscale", "lastpx", 8), Par(1, None)),
      Case("grle", Img(512, 256, "Grayscale", "bands", 8), Par(1, None)),
      Case("grle", Img(256, 256, "GrayscaleAlpha", "bands", 8), Par(1, None)) }
    \cup
    { Case("grle", Img(d[1], d[2], "Grayscale", "zero", 8), Par(1, None)) :
        d \in {<<32, 32>>, <<255, 256>>, <<256, 100>>, <<100, 256>>, <<257, 512>>} }

Cases == GdmGoodCases \cup GdmBadCases \cup GrleCases

\* a path of the file system: no file, a file from before the run, a file an
\* interrupted write left, a file written to its end
Absent == [state |-> "absent", data |-> <<>>]
OldFile == [state |-> "old", data |-> <<>>]
BinBefore == IF existing THEN OldFile ELSE Absent

NoPng == [state |-> "absent", image |-> NoImage]
OldPng == [state |-> "old", image |-> NoImage]
PngBefore == IF existing THEN OldPng ELSE NoPng

\* File::create followed by the writes: creation fails, a write fails after
\* the file was created or truncated, or everything is written
IoOutcomes == {"ok", "create_fails", "write_fails"}

IoResult(io) == IF io = "ok" THEN "Ok" ELSE "io error"

Init ==
    /\ pc = "start"
    /\ \E c \in Cases : target = c.target /\ png_in = c.img /\ args = c.params
    /\ existing \in BOOLEAN
    /\ bin = BinBefore
    /\ png = PngBefore
    /\ enc_result = "none"
    /\ dec_result = "none"
    /\ damage = {}
    /\ decoded = <<>>
    /\ RleOff
    /\ MainOff
    /\ SizeOff
    /\ ChunksOff

\* the encoder from its computed value r on: return of the error, or
\* File::create and write_all of r.output
Encode(r) ==
    /\ pc = "start"
    /\ \E overflow_checks \in BOOLEAN, io \in IoOutcomes :
          LET res == Outcome(r, overflow_checks)
          IN  IF res # "Ok"
              THEN enc_result' = res /\ bin' = bin
              ELSE /\ enc_result' = IoResult(io)
                   /\ \E n \in {0, Len(r.output) \div 2} :
                         bin' = CASE io = "ok" ->
                                       [state |-> "complete", data |-> r.output]
                                  [] io = "create_fails" -> bin
                                  [] io = "write_fails" ->
                                       [state |-> "partial",
                                        data |-> SubSeq(r.output, 1, n)]
    /\ pc' = "encoded"
    /\ UNCHANGED <<target, png_in, args, existing, damage, png, dec_result, decoded>>
    /\ UNCHANGED rle_vars
    /\ UNCHANGED main_vars
    /\ UNCHANGED size_vars
    /\ UNCHANGED chunk_vars

EncodeGrle ==
    /\ target = "grle"
    /\ pc = "start"
    /\ LET r == convert_png_to_grle(png_in, args) IN Encode(r)

EncodeGdm ==
    /\ target = "gdm"
    /\ pc = "start"
    /\ LET r == convert_png_to_gdm(png_in, args) IN Encode(r)

\* the binary file can be decoded: the encoder wrote it to its end
Decodable == pc = "encoded" /\ enc_result = "Ok" /\ bin.state = "complete"

\* the lengths a binary file is cut to: inside the magic, the header, the
\* range boundaries, the first block's head, palette and bitmap, the last block
TruncationPoints(len) ==
    {n \in {0, 3, 4, 9, 15, 16, 17, 18, 19, 20, 21, 22, len \div 2, len - 1} :
        n >= 0 /\ n < len}

\* fs::read of the input path returns only the first n bytes of what the
\* encoder wrote: the input file is a truncated copy
Truncate ==
    /\ Decodable
    /\ damage \subseteq {"short"}
    /\ \E n \in TruncationPoints(Len(bin.data)) :
          bin' = [bin EXCEPT !.data = SubSeq(bin.data, 1, n)]
    /\ damage' = damage \cup {"truncated"}
    /\ UNCHANGED <<pc, target, png_in, args, existing, enc_result, png, dec_result,
                   decoded>>
    /\ UNCHANGED rle_vars
    /\ UNCHANGED main_vars
    /\ UNCHANGED size_vars
    /\ UNCHANGED chunk_vars

\* one byte of the magic is not the format's
CorruptMagic ==
    /\ Decodable
    /\ damage \subseteq {"short"}
    /\ \E i \in 1..4 : bin' = [bin EXCEPT !.data[i] = 88]
    /\ damage' = damage \cup {"magic"}
    /\ UNCHANGED <<pc, target, png_in, args, existing, enc_result, png, dec_result,
                   decoded>>
    /\ UNCHANGED rle_vars
    /\ UNCHANGED main_vars
    /\ UNCHANGED size_vars
    /\ UNCHANGED chunk_vars

\* the version field of a "MDF file holds another number than 0
SetVersion ==
    /\ Decodable
    /\ target = "gdm"
    /\ damage = {}
    /\ \E i \in 5..8 : bin' = [bin EXCEPT !.data[i] = 1]
    /\ damage' = damage \cup {"version"}
    /\ UNCHANGED <<pc, target, png_in, args, existing, enc_result, png, dec_result,
                   decoded>>
    /\ UNCHANGED rle_vars
    /\ UNCHANGED main_vars
    /\ UNCHANGED size_vars
    /\ UNCHANGED chunk_vars

\* lines 475-484: the same content under the 9-byte !MDF header
ShortHeader ==
    /\ Decodable
    /\ target = "gdm"
    /\ damage = {}
    /\ bin' = [bin EXCEPT !.data = <<33, 77, 68, 70>> \o SubSeq(bin.data, 9, 13)
                                   \o SubSeq(bin.data, 17, Len(bin.data))]
    /\ damage' = damage \cup {"short"}
    /\ UNCHANGED <<pc, target, png_in, args, existing, enc_result, png, dec_result,
                   decoded>>
    /\ UNCHANGED rle_vars
    /\ UNCHANGED main_vars
    /\ UNCHANGED size_vars
    /\ UNCHANGED chunk_vars

\* the decoder from its computed value r on: return of the error or the panic,
\* or File::create and the PNG encoder's writes of r.image
Decode(r, values) ==
    /\ Decodable
    /\ \E overflow_checks \in BOOLEAN, io \in IoOutcomes :
          LET res == Outcome(r, overflow_checks)
          IN  IF res # "Ok"
              THEN dec_result' = res /\ png' = png
              ELSE /\ dec_result' = IoResult(io)
                   /\ png' = CASE io = "ok" ->
                                    [state |-> "complete", image |-> r.image]
                               [] io = "create_fails" -> png
                               [] io = "write_fails" ->
                                    [state |-> "partial", image |-> NoImage]
    /\ decoded' = values
    /\ pc' = "decoded"
    /\ UNCHANGED <<target, png_in, args, existing, bin, enc_result, damage>>
    /\ UNCHANGED rle_vars
    /\ UNCHANGED main_vars
    /\ UNCHANGED size_vars
    /\ UNCHANGED chunk_vars

DecodeGrle ==
    /\ target = "grle"
    /\ Decodable
    /\ LET r == convert_grle_to_png(bin.data) IN Decode(r, r.pixels)

DecodeGdm ==
    /\ target = "gdm"
    /\ Decodable
    /\ LET r == convert_gdm_to_png(bin.data) IN Decode(r, r.combined)

Next ==
    \/ EncodeGrle
    \/ EncodeGdm
    \/ Truncate
    \/ CorruptMagic
    \/ SetVersion
    \/ ShortHeader
    \/ DecodeGrle
    \/ DecodeGdm

Spec == Init /\ [][Next]_vars

----------------------------------------------------------------------------
(* SpecRle: the two RLE functions applied to bounded pixel buffers *)

\* pixel values and run lengths the buffers are built from: 0xff is the
\* continuation byte, 257 = 2 + 255 is the first length with a 0xff count byte
RunValues == {0, 9, 255}
RunLens == {1, 2, 257}

RunLists == UNION {[1..n -> RunValues \X RunLens] : n \in 0..MaxRuns}

RECURSIVE Expand(_)
Expand(rs) ==
    IF Len(rs) = 0 THEN <<>>
    ELSE Repeat(rs[1][1], rs[1][2]) \o Expand(Tail(rs))

Buffers == {Expand(rs) : rs \in RunLists}

RleInit ==
    /\ rle_pc = "input"
    /\ rle_pixels \in Buffers
    /\ rle_payload = <<>>
    /\ rle_decoded = <<>>
    /\ rle_i = 0
    /\ rle_expected_size = Len(rle_pixels)
    /\ FileOff
    /\ MainOff
    /\ SizeOff
    /\ ChunksOff

RleEncode ==
    /\ rle_pc = "input"
    /\ rle_payload' = encode_grle_rle(rle_pixels)
    /\ rle_pc' = "encoded"
    /\ UNCHANGED <<rle_pixels, rle_decoded, rle_i, rle_expected_size>>
    /\ UNCHANGED file_vars
    /\ UNCHANGED main_vars
    /\ UNCHANGED size_vars
    /\ UNCHANGED chunk_vars

\* the payload reaches the decoder with one more byte after it (the padding
\* byte of an RLE-LAYER file): a value of the buffers or one that none holds
RlePad ==
    /\ rle_pc = "encoded"
    /\ \E b \in RunValues \cup {1} : rle_payload' = Append(rle_payload, b)
    /\ rle_pc' = "padded"
    /\ UNCHANGED <<rle_pixels, rle_decoded, rle_i, rle_expected_size>>
    /\ UNCHANGED file_vars
    /\ UNCHANGED main_vars
    /\ UNCHANGED size_vars
    /\ UNCHANGED chunk_vars

RleDecode ==
    /\ rle_pc \in {"encoded", "padded"}
    /\ rle_decoded' = decode_grle_rle(rle_payload, rle_expected_size)
    /\ rle_pc' = IF rle_pc = "encoded" THEN "decoded" ELSE "decoded padded"
    /\ UNCHANGED <<rle_pixels, rle_payload, rle_i, rle_expected_size>>
    /\ UNCHANGED file_vars
    /\ UNCHANGED main_vars
    /\ UNCHANGED size_vars
    /\ UNCHANGED chunk_vars

RleNext == RleEncode \/ RlePad \/ RleDecode

SpecRle == RleInit /\ [][RleNext]_vars

----------------------------------------------------------------------------
(* SpecDecoder: decode_grle_rle, one loop iteration at a time, on any payload *)

\* the payloads: every byte string of up to MaxPayloadLen bytes over a zero,
\* two other values and the continuation byte 0xff
Payloads == UNION {[1..n -> {0, 7, 9, 255}] : n \in 0..MaxPayloadLen}

\* lines 166-167: the call, before the first test of the loop condition; the
\* expected sizes are none, fewer and more pixels than a payload yields, and
\* sizes on either side of a run with one and two continuation bytes
DecoderInit ==
    /\ rle_pc = "loop"
    /\ rle_pixels = <<>>
    /\ rle_payload \in Payloads
    /\ rle_expected_size \in {0, 1, 2, 3, 5, 258, 600}
    /\ rle_i = 1
    /\ rle_decoded = <<>>
    /\ FileOff
    /\ MainOff
    /\ SizeOff
    /\ ChunksOff

\* lines 169-194: the loop condition holds and the body runs once
DecodeIteration ==
    /\ rle_pc = "loop"
    /\ decode_continues(rle_payload, rle_expected_size, rle_i, rle_decoded)
    /\ LET st == decode_iteration(rle_payload, rle_expected_size, rle_i, rle_decoded)
       IN  rle_i' = st[1] /\ rle_decoded' = st[2]
    /\ UNCHANGED <<rle_pc, rle_pixels, rle_payload, rle_expected_size>>
    /\ UNCHANGED file_vars
    /\ UNCHANGED main_vars
    /\ UNCHANGED size_vars
    /\ UNCHANGED chunk_vars

\* lines 169, 196-197: the loop condition fails, the output is resized and
\* returned
DecodeReturn ==
    /\ rle_pc = "loop"
    /\ ~decode_continues(rle_payload, rle_expected_size, rle_i, rle_decoded)
    /\ rle_decoded' = resize(rle_decoded, rle_expected_size, 0)
    /\ rle_pc' = "returned"
    /\ UNCHANGED <<rle_pixels, rle_payload, rle_i, rle_expected_size>>
    /\ UNCHANGED file_vars
    /\ UNCHANGED main_vars
    /\ UNCHANGED size_vars
    /\ UNCHANGED chunk_vars

SpecDecoder == DecoderInit /\ [][DecodeIteration \/ DecodeReturn]_vars

\* the function runs on: a step that can be taken is taken
SpecDecoderLive == SpecDecoder /\ WF_vars(DecodeIteration \/ DecodeReturn)

----------------------------------------------------------------------------
(* SpecMain: one run of main on a command line and the files it finds *)

\* zero or one time each of the sequences of a set
Optional(seqs) == {<<>>} \cup seqs

\* the command lines: a .png input with or without an output path, --i3d,
\* --channels and --compress-at; another input with or without an output
\* path; and lines the argument loop or the input check ends on
CommandLines ==
    LET png_inputs == {<<"m", "a", "p", "s", "/", "a", ".", "p", "n", "g">>, <<"i", "n", "f", "o", "L", "a", "y", "e", "r", "_", "a", ".", "p", "n", "g">>}
        other_inputs == {<<"a", ".", "g", "r", "l", "e">>, <<"a", ".", "G", "D", "M">>, <<"a", ".", "t", "x", "t">>}
        outputs == {<<"o", ".", "g", "r", "l", "e">>, <<"o", ".", "G", "R", "L", "E">>, <<"o", ".", "g", "d", "m">>, <<"o", ".", "p", "n", "g">>, <<"o">>}
        channel_texts == {<<"1", "2">>, <<"x">>}
    IN  {<<i>> \o o \o d \o c \o a :
            i \in png_inputs,
            o \in Optional({<<p>> : p \in outputs}),
            d \in Optional({<<<<"-", "-", "i", "3", "d">>, <<"m", "a", "p", ".", "i", "3", "d">>>>}),
            c \in Optional({<<<<"-", "-", "c", "h", "a", "n", "n", "e", "l", "s">>, t>> : t \in channel_texts}),
            a \in Optional({<<<<"-", "-", "c", "o", "m", "p", "r", "e", "s", "s", "-", "a", "t">>, <<"2">>>>})}
        \cup {<<i>> \o o : i \in other_inputs, o \in Optional({<<<<"o", ".", "p", "n", "g">>>>})}
        \cup { <<>>,
               <<<<"-", "-", "h", "e", "l", "p">>>>,
               <<<<"m", "a", "p", "s", "/", "a", ".", "p", "n", "g">>, <<"-", "h">>>>,
               <<<<"-", "-", "f", "a", "s", "t">>, <<"m", "a", "p", "s", "/", "a", ".", "p", "n", "g">>>>,
               <<<<"m", "a", "p", "s", "/", "a", ".", "p", "n", "g">>, <<"-", "-", "c", "h", "a", "n", "n", "e", "l", "s">>>>,
               <<<<"-", "-", "i", "3", "d">>>>,
               <<<<"-", "-", "c", "h", "a", "n", "n", "e", "l", "s">>, <<"4">>>>,
               <<<<"-", "-", "c", "h", "a", "n", "n", "e", "l", "s">>, <<"4">>, <<"m", "a", "p", "s", "/", "a", ".", "p", "n", "g">>, <<"o", ".", "g", "d", "m">>, <<"o", ".", "g", "r", "l", "e">>>> }

\* the text of the attributes <<name, value>> of an element: name="value"
RECURSIVE AttrText(_)
AttrText(attrs) ==
    IF Len(attrs) = 0 THEN <<>>
    ELSE <<" ">> \o attrs[1][1] \o <<"=", "\"">> \o attrs[1][2] \o QUOTE
         \o AttrText(Tail(attrs))

\* a line of a descriptor: <tag name="value" .../>
ElementLine(tag, attrs) == <<" ", "<">> \o tag \o AttrText(attrs) \o <<"/", ">">>

\* the descriptors: a.png is file 7 and b.png file 8
Docs ==
    LET file_lines == <<<<"<", "i", "3", "D", ">">>,
                        ElementLine(<<"F", "i", "l", "e">>, << <<<<"f", "i", "l", "e", "I", "d">>, <<"7">>>>,
                                                  <<<<"f", "i", "l", "e", "n", "a", "m", "e">>, <<"$", "d", "a", "t", "a", "/", "a", ".", "p", "n", "g">>>> >>),
                        ElementLine(<<"F", "i", "l", "e">>, << <<<<"f", "i", "l", "e", "I", "d">>, <<"8">>>>,
                                                  <<<<"f", "i", "l", "e", "n", "a", "m", "e">>, <<"b", ".", "p", "n", "g">>>> >>)>>
        info == <<"I", "n", "f", "o", "L", "a", "y", "e", "r">>
        detail == <<"D", "e", "t", "a", "i", "l", "L", "a", "y", "e", "r">>
        foliage == <<"F", "o", "l", "i", "a", "g", "e", "M", "u", "l", "t", "i", "L", "a", "y", "e", "r">>
        file_ref(id) == <<<<"f", "i", "l", "e", "I", "d">>, id>>
        map_ref(id) == <<<<"d", "e", "n", "s", "i", "t", "y", "M", "a", "p", "I", "d">>, id>>
        ref(tag, id) == IF tag = info THEN file_ref(id) ELSE map_ref(id)
        num_channels == <<<<"n", "u", "m", "C", "h", "a", "n", "n", "e", "l", "s">>, <<"4">>>>
        num_density == <<<<"n", "u", "m", "D", "e", "n", "s", "i", "t", "y", "M", "a", "p", "C", "h", "a", "n", "n", "e", "l", "s">>, <<"8">>>>
        compression == <<<<"c", "o", "m", "p", "r", "e", "s", "s", "i", "o", "n", "C", "h", "a", "n", "n", "e", "l", "s">>, <<"2">>>>
        attr_lists == {n \o d \o c : n \in Optional({<<num_channels>>}),
                                     d \in Optional({<<num_density>>}),
                                     c \in Optional({<<compression>>})}
    IN  \* one layer element that refers to a.png, each of the three
        \* attributes present or not
        {file_lines \o <<ElementLine(tag, <<ref(tag, <<"7">>)>> \o attrs)>> :
            tag \in {info, detail, foliage}, attrs \in attr_lists}
        \cup
        { \* no layer refers to a.png
          file_lines \o <<ElementLine(detail, <<map_ref(<<"8">>), num_density>>)>>,
          \* a.png is not a file of the descriptor
          <<<<"<", "i", "3", "D", ">">>,
            ElementLine(<<"F", "i", "l", "e">>, << <<<<"f", "i", "l", "e", "I", "d">>, <<"8">>>>, <<<<"f", "i", "l", "e", "n", "a", "m", "e">>, <<"b", ".", "p", "n", "g">>>> >>),
            ElementLine(info, <<file_ref(<<"8">>), num_channels>>)>>,
          \* a DetailLayer without its channel count before a FoliageMultiLayer
          file_lines \o <<ElementLine(detail, <<map_ref(<<"7">>)>>),
                          ElementLine(foliage, <<map_ref(<<"7">>), num_channels>>)>>,
          \* an InfoLayer without its channel count before a DetailLayer
          file_lines \o <<ElementLine(info, <<file_ref(<<"7">>)>>),
                          ElementLine(detail, <<map_ref(<<"7">>), num_density,
                                                compression>>)>>,
          \* a channel count that is no number
          file_lines \o <<ElementLine(foliage, <<map_ref(<<"7">>),
                                                 <<<<"n", "u", "m", "C", "h", "a", "n", "n", "e", "l", "s">>, <<"x">>>> >>)>> }

\* the descriptor a --i3d path names and the one find_i3d_file finds
FileSystems ==
    {[given |-> g, nearby |-> NoContent] : g \in {SomeContent(d) : d \in Docs}}
    \cup {[given |-> NoContent, nearby |-> n] :
             n \in {NoContent} \cup {SomeContent(d) : d \in Docs}}

MainInit ==
    /\ main_pc = "start"
    /\ argv \in CommandLines
    /\ fs \in FileSystems
    /\ main_out = NoRun
    /\ FileOff
    /\ RleOff
    /\ SizeOff
    /\ ChunksOff

\* the conversion main calls returns Ok or Err, or panics
Main ==
    /\ main_pc = "start"
    /\ \E conv \in {"Ok", "Err", "Panic"} : main_out' = main(argv, fs, conv)
    /\ main_pc' = "exited"
    /\ UNCHANGED <<argv, fs>>
    /\ UNCHANGED file_vars
    /\ UNCHANGED rle_vars
    /\ UNCHANGED size_vars
    /\ UNCHANGED chunk_vars

SpecMain == MainInit /\ [][Main]_vars

----------------------------------------------------------------------------
(* SpecChunks: the chunk loop of convert_png_to_gdm with its passes taken in
   any order, each pass filling the place of its chunk; the places are put
   together in the order of the chunk index *)

\* 64x64 images (four chunks) of uniform, two-valued, four-valued and raw
\* chunks, in one and two ranges
ChunkCases ==
    { Case("gdm", Img(64, 64, "Grayscale", "mixed", 8), Par(8, Some(3))),
      Case("gdm", Img(64, 64, "Grayscale", "mixed", 8), Par(8, None)),
      Case("gdm", Img(64, 64, "Rgb", "mixed", 12), Par(12, Some(4))),
      Case("gdm", Img(64, 64, "Grayscale", "quads", 8), Par(4, None)) }

ChunksInit ==
    /\ chunks_pc = "encoding"
    /\ chunks_case \in ChunkCases
    /\ order = <<>>
    /\ chunk_blocks = [k \in 1..((chunks_case.img.width \div 32)
                                  * (chunks_case.img.width \div 32)) |-> <<>>]
    /\ stream = <<>>
    /\ FileOff
    /\ RleOff
    /\ MainOff
    /\ SizeOff

\* lines 766-799 for one chunk_idx that has not been encoded yet
EncodeChunk ==
    /\ chunks_pc = "encoding"
    /\ \E chunk_idx \in 0..(Len(chunk_blocks) - 1) :
          /\ chunk_blocks[chunk_idx + 1] = <<>>
          /\ LET img == chunks_case.img
                 channel_values ==
                     collect([k \in 1..(img.width * img.height) |->
                                 channel_value(img, k - 1)])
                 bits_per_range ==
                     gdm_bits_per_range(chunks_case.params.num_channels,
                                        chunks_case.params.compression_channels)
             IN  chunk_blocks' =
                     [chunk_blocks EXCEPT ![chunk_idx + 1] =
                         gdm_chunk_blocks(channel_values, img.width, 32,
                                          bits_per_range, chunk_idx)]
          /\ order' = Append(order, chunk_idx)
    /\ UNCHANGED <<chunks_pc, chunks_case, stream>>
    /\ UNCHANGED file_vars
    /\ UNCHANGED rle_vars
    /\ UNCHANGED main_vars
    /\ UNCHANGED size_vars

\* lines 745-763 and the extend_from_slice of line 795 in the order of
\* chunk_idx: the header, then the blocks of chunk 0, 1, ...
JoinChunks ==
    /\ chunks_pc = "encoding"
    /\ \A k \in 1..Len(chunk_blocks) : chunk_blocks[k] # <<>>
    /\ LET RECURSIVE joined(_)
           joined(k) == IF k > Len(chunk_blocks) THEN <<>>
                        ELSE chunk_blocks[k] \o joined(k + 1)
       IN  stream' = gdm_header(gdm_dim_log2(chunks_case.img.width), 5,
                                chunks_case.params.num_channels,
                                chunks_case.params.compression_channels)
                     \o joined(1)
    /\ chunks_pc' = "joined"
    /\ UNCHANGED <<chunks_case, order, chunk_blocks>>
    /\ UNCHANGED file_vars
    /\ UNCHANGED rle_vars
    /\ UNCHANGED main_vars
    /\ UNCHANGED size_vars

SpecChunks == ChunksInit /\ [][EncodeChunk \/ JoinChunks]_vars

----------------------------------------------------------------------------
(* SpecSizeField: lines 374-380 of convert_png_to_grle on the length of the
   compressed payload *)

\* the payload of an accepted image has at least the 260 bytes of one run of
\* 256 x 256 pixels; the lengths go MaxLenSteps up from there
MaxLenSteps == 100

\* payload lengths: the short ones, those around 2^16, and those around
\* 2^24, among them 1 + 4096 * 4096, the payload of an image of
\* 4096 x 4096 pixels without equal neighbours
PayloadLens ==
    (260..(260 + MaxLenSteps))
    \cup {65536, 65537, 65538}
    \cup {16777215, 16777216, 1 + 4096 * 4096, 16777218}

SizeInit ==
    /\ payload_len \in PayloadLens
    /\ size_field = <<>>
    /\ FileOff
    /\ RleOff
    /\ MainOff
    /\ ChunksOff

WriteSizeField ==
    /\ payload_len > 0
    /\ size_field = <<>>
    /\ size_field' = grle_size_field(payload_len)
    /\ UNCHANGED payload_len
    /\ UNCHANGED file_vars
    /\ UNCHANGED rle_vars
    /\ UNCHANGED main_vars
    /\ UNCHANGED chunk_vars

SpecSizeField == SizeInit /\ [][WriteSizeField]_vars

----------------------------------------------------------------------------
(* C1: RLE-LAYER round trip: for every pixel buffer P,
   decode_grle_rle(encode_grle_rle(P), |P|) = P byte for byte. *)
C1_RleRoundTrip ==
    rle_pc = "decoded" => rle_decoded = rle_pixels

----------------------------------------------------------------------------
(* Vocabulary of the claims about Spec *)

Finished == pc \in {"encoded", "decoded"}

\* one range, or two ranges split at 0 < c < numChannels
ValidLayout(q) ==
    \/ ~q.compression_channels.some
    \/ /\ 0 < q.compression_channels.value
       /\ q.compression_channels.value < q.num_channels

\* the combined-value buffer V of an image
CombinedValues(i) == collect([k \in 1..(i.width * i.height) |-> PatValue(i, k - 1)])

\* what the encoder of the target writes for image i
EncodedFile(i) ==
    IF target = "grle" THEN convert_png_to_grle(i, args).output
    ELSE convert_png_to_gdm(i, args).output

(* C2: PACKED-DENSITY round trip: for a square buffer V of side 2^(n+5) with
   values below 2^numChannels, numChannels <= 24 and a valid layout, decoding
   the file the encoder wrote yields exactly V. *)
C2_GdmRoundTrip ==
    ( /\ pc = "decoded"
      /\ target = "gdm"
      /\ damage = {}
      /\ args.num_channels <= 24
      /\ ValidLayout(args)
      /\ png_in.bits <= args.num_channels )
    => decoded = CombinedValues(png_in)

(* C3: RLE-LAYER decoding never panics: for every input file, the empty one
   and those shorter than the magic or the header included,
   convert_grle_to_png returns an error or succeeds. *)
C3_GrleDecodeNeverPanics ==
    (pc = "decoded" /\ target = "grle") => dec_result # "Panic"

(* C4: a PACKED-DENSITY file with a valid header that ends before all the
   declared data is present makes convert_gdm_to_png return the truncation
   error; no read goes out of bounds. *)
C4_GdmTruncatedIsError ==
    ( /\ pc = "decoded"
      /\ target = "gdm"
      /\ damage = {"truncated"}
      /\ Len(bin.data) >= 16 )
    => dec_result = "Unexpected end of data"

\* the decoder returned one of its header errors, decoded nothing and left
\* the output path as it was
Rejected(message) ==
    /\ dec_result = message
    /\ decoded = <<>>
    /\ png = PngBefore

(* C5: header validation on decode: of the inputs of at least header length,
   a .grle file whose first four bytes are not GRLE, a .gdm file whose first
   four bytes are neither "MDF nor !MDF and a "MDF file whose version field is
   not 0 are rejected with an error; no pixel is decoded and no output file is
   created. *)
C5_HeaderValidation ==
    (pc = "decoded" /\ Len(bin.data) >= (IF target = "grle" THEN 20 ELSE 16))
    => LET magic == SubSeq(bin.data, 1, 4)
           version == SubSeq(bin.data, 5, 8)
       IN  /\ (target = "grle" /\ magic # <<71, 82, 76, 69>>)
              => Rejected("Not a valid GRLE file")
           /\ (target = "gdm" /\ magic \notin {<<34, 77, 68, 70>>, <<33, 77, 68, 70>>})
              => Rejected("Not a valid GDM file")
           /\ (target = "gdm" /\ magic = <<34, 77, 68, 70>>
                 /\ version # <<0, 0, 0, 0>>)
              => Rejected("Unsupported GDM version")

\* C5 witness: a "MDF file with version 256 was refused and the PNG that was
\* at the output path before is still there
C5_Witness ==
    /\ pc = "decoded"
    /\ target = "gdm"
    /\ damage = {"version"}
    /\ SubSeq(bin.data, 5, 8) = <<0, 1, 0, 0>>
    /\ dec_result = "Unsupported GDM version"
    /\ existing
    /\ png = OldPng

\* the sides and side lengths the two encoders take
IsMultipleOf256(n) == \E m \in 0..n : n = 256 * m
IsPowerOfTwoFrom32(n) == \E e \in 5..30 : n = 2^e

DimensionErrors ==
    {"Dimensions must be multiples of 256", "GDM requires square dimensions",
     "Dimension must be power of 2 >= 32"}

(* C6: dimension validation on encode: convert_png_to_grle returns the
   dimension error exactly when the width or the height is no multiple of 256,
   convert_png_to_gdm exactly when the image is not square or its side is no
   power of two >= 32; an accepted side has dim_log2 = log2(side) - 5 in the
   header; in the error case nothing is written. *)
C6_DimensionValidation ==
    Finished =>
        LET good == IF target = "grle"
                    THEN IsMultipleOf256(png_in.width) /\ IsMultipleOf256(png_in.height)
                    ELSE png_in.width = png_in.height
                         /\ IsPowerOfTwoFrom32(png_in.width)
        IN  /\ (enc_result \in DimensionErrors) <=> ~good
            /\ ~good => bin = BinBefore
            /\ (target = "gdm" /\ enc_result = "Ok" /\ damage = {})
               => 2^(At(bin.data, 8) + 5) = png_in.width

\* C6 witness: a 96x96 image was refused and the file that was at the output
\* path before is still there
C6_Witness ==
    /\ pc = "encoded"
    /\ target = "gdm"
    /\ png_in.width = 96
    /\ enc_result = "Dimension must be power of 2 >= 32"
    /\ existing
    /\ bin = OldFile

(* C7: a grayscale PNG is rejected with an error when the PACKED-DENSITY
   target has numChannels > 8, and no file is written. *)
C7_GrayRejectedAbove8 ==
    ( /\ Finished
      /\ target = "gdm"
      /\ png_in.color = "Grayscale"
      /\ args.num_channels > 8 )
    => (enc_result # "Ok" /\ bin = BinBefore)

\* the image with the R bytes of i as its gray bytes
GrayTwin(i) == [i EXCEPT !.color = "Grayscale", !.bits = Min2(i.bits, 8)]

\* the image i without its bits at positions n and above
LowBits(i, n) == [i EXCEPT !.bits = Min2(i.bits, n)]

(* C8: for an 8-bit-channel target (RLE-LAYER, or PACKED-DENSITY with
   numChannels <= 8 and a valid layout) the file written for an RGB or RGBA
   image is the file written for the grayscale image of its R bytes, whatever
   G, B and alpha are; and a PACKED-DENSITY file does not depend on the input
   bits at positions >= numChannels. *)
C8_OnlyLowBitsMatter ==
    ( /\ pc = "encoded"
      /\ enc_result = "Ok"
      /\ damage = {}
      /\ ValidLayout(args) )
    => /\ ( /\ png_in.color \in {"Rgb", "Rgba"}
            /\ (target = "grle" \/ args.num_channels <= 8) )
          => bin.data = EncodedFile(GrayTwin(png_in))
       /\ target = "gdm"
          => bin.data = EncodedFile(LowBits(png_in, args.num_channels))

\* C8 witness: an RGBA image with non-zero G and B bytes was written to a
\* two-range PACKED-DENSITY file of 8 channels
C8_Witness ==
    /\ pc = "encoded"
    /\ enc_result = "Ok"
    /\ target = "gdm"
    /\ png_in.color = "Rgba"
    /\ png_in.bits = 24
    /\ \E k \in 0..1023 : PngByte(png_in, 4 * k + 1) # 0 /\ PngByte(png_in, 4 * k + 2) # 0
    /\ args = Par(8, Some(3))
    /\ bin.state = "complete"

\* num_channels of the header of a PACKED-DENSITY file
HeaderNumChannels(data) ==
    IF SubSeq(data, 1, 4) = <<34, 77, 68, 70>> THEN At(data, 11) ELSE At(data, 7)

(* C9: output mode of the PACKED-DENSITY decoder: the image is 8-bit grayscale
   with gray = the low 8 bits of the combined value when the header's
   numChannels <= 8, and 8-bit RGB with R, G, B = bits 0-7, 8-15, 16-23 of the
   combined value when it is above 8; the encoder combines an RGB pixel to
   R | G << 8 | B << 16. *)
C9_GdmOutputMode ==
    /\ (pc = "decoded" /\ target = "gdm" /\ dec_result = "Ok")
       => LET n == Len(decoded)
              image == png.image
          IN  /\ n = image.width * image.height
              /\ IF HeaderNumChannels(bin.data) <= 8
                 THEN /\ image.color = "Grayscale"
                      /\ Len(image.data) = n
                      /\ \A p \in 1..n : image.data[p] = decoded[p] % 256
                 ELSE /\ image.color = "Rgb"
                      /\ Len(image.data) = 3 * n
                      /\ \A p \in 1..n :
                            /\ image.data[3 * p - 2] = decoded[p] % 256
                            /\ image.data[3 * p - 1] = (decoded[p] \div 256) % 256
                            /\ image.data[3 * p] = (decoded[p] \div 65536) % 256
    /\ (pc = "encoded" /\ target = "gdm" /\ enc_result = "Ok" /\ damage = {}
          /\ png_in.color \in {"Rgb", "Rgba"})
       => \A k \in 0..(png_in.width * png_in.height - 1) :
             LET bpp == BytesPerPixel(png_in.color)
             IN  channel_value(png_in, k)
                     = PngByte(png_in, k * bpp) + 256 * PngByte(png_in, k * bpp + 1)
                       + 65536 * PngByte(png_in, k * bpp + 2)

\* C9 witness: a file of 12 channels was decoded to an RGB image with a
\* non-zero G byte
C9_Witness ==
    /\ pc = "decoded"
    /\ target = "gdm"
    /\ dec_result = "Ok"
    /\ HeaderNumChannels(bin.data) = 12
    /\ png.state = "complete"
    /\ png.image.color = "Rgb"
    /\ \E p \in 1..Len(decoded) : decoded[p] >= 256 /\ png.image.data[3 * p - 1] # 0

(* C10: no partial output on failure: when an encode or a decode fails at any
   step, a failing write to the output included, the output path holds no
   partially written file afterwards: a file that was there is left as it
   was. *)
C10_NoPartialOutput ==
    /\ (Finished /\ enc_result # "Ok") => bin = BinBefore
    /\ (pc = "decoded" /\ dec_result # "Ok") => png = PngBefore

----------------------------------------------------------------------------
(* Claims about main and the resolver, checked under SpecMain *)

\* the options and paths of the command line of the run
Parsed == parse_args(argv, 0, ArgsStart)

\* the run was asked to encode a PNG: the command line was accepted and its
\* input path has the extension png
PngRun ==
    /\ main_pc = "exited"
    /\ Len(argv) > 0
    /\ Parsed.exit = -1
    /\ Parsed.input_path.some
    /\ lower_ext(Parsed.input_path.value) = <<"p", "n", "g">>

\* the file name of the input
InputName == file_name(Parsed.input_path.value).value

\* the layout the descriptor (named by --i3d, or else discovered) has for the
\* input
DescriptorLayout ==
    parse_i3d_for_file(IF Parsed.i3d_path.some THEN fs.given ELSE fs.nearby,
                       InputName)

\* an output path with the extension .grle was given
GrleRequested ==
    /\ Parsed.output_path.some
    /\ lower_ext(Parsed.output_path.value) = <<"g", "r", "l", "e">>

\* C11: for a .png input the parameters are resolved in this order: (1) the
\* layout of the descriptor, if it has one, whatever --channels and
\* --compress-at say; (2) else the --channels count (a number) with the
\* --compress-at split, as InfoLayer iff the file name contains "infoLayer"
\* or the output extension is .grle; (3) else, for a .grle output, one
\* InfoLayer channel; (4) else exit code 1 and no conversion is called, so no
\* output file is created
C11_ParameterResolution ==
    PngRun =>
        IF DescriptorLayout.some
        THEN main_out.params = DescriptorLayout
        ELSE IF Parsed.manual_channels.some
        THEN /\ main_out.params.some
             /\ main_out.params.value.num_channels = Parsed.manual_channels.value
             /\ main_out.params.value.compression_channels = Parsed.manual_compress_at
             /\ main_out.params.value.layer_type \in {"InfoLayer", "GdmLayer"}
             /\ main_out.params.value.layer_type = "InfoLayer"
                    <=> (contains(InputName, <<"i", "n", "f", "o", "L", "a", "y", "e", "r">>)
                         \/ GrleRequested)
        ELSE IF GrleRequested
        THEN main_out.params = SomeParams(LayerParams("InfoLayer", 1, None))
        ELSE /\ main_out.exit_code = 1
             /\ main_out.call = "none"
             /\ ~main_out.params.some

\* a run whose descriptor has a layout while --channels and --compress-at
\* say something else
C11_Witness ==
    /\ PngRun
    /\ DescriptorLayout.some
    /\ Parsed.manual_channels.some
    /\ Parsed.manual_compress_at.some
    /\ DescriptorLayout.value.num_channels # Parsed.manual_channels.value
    /\ main_out.params = DescriptorLayout
    /\ main_out.call # "none"

\* the descriptor the run read, as lines
DescriptorLines == (IF Parsed.i3d_path.some THEN fs.given ELSE fs.nearby).value

\* the element line carries the attribute
Carries(line, attr_name) == contains(line, <<" ">> \o attr_name \o <<"=", "\"">>)

\* the line is a layer element of the given tag that refers to file id by
\* the reference attribute ref
RefersTo(line, tag, ref, id) ==
    /\ contains(line, <<"<">> \o tag \o <<" ">>)
    /\ contains(line, <<" ">> \o ref \o <<"=", "\"">> \o id \o <<"\"">>)

\* the descriptor has a <File line for the input and exactly one layer
\* element that refers to that file, on line j
OnlyLayerLine(j) ==
    LET id == find_file_id(DescriptorLines, InputName)
        layer(k) ==
            \/ RefersTo(DescriptorLines[k], <<"I", "n", "f", "o", "L", "a", "y", "e", "r">>, <<"f", "i", "l", "e", "I", "d">>, id.value)
            \/ RefersTo(DescriptorLines[k], <<"D", "e", "t", "a", "i", "l", "L", "a", "y", "e", "r">>, <<"d", "e", "n", "s", "i", "t", "y", "M", "a", "p", "I", "d">>, id.value)
            \/ RefersTo(DescriptorLines[k], <<"F", "o", "l", "i", "a", "g", "e", "M", "u", "l", "t", "i", "L", "a", "y", "e", "r">>, <<"d", "e", "n", "s", "i", "t", "y", "M", "a", "p", "I", "d">>, id.value)
    IN  /\ id.some
        /\ j \in 1..Len(DescriptorLines)
        /\ \A k \in 1..Len(DescriptorLines) : layer(k) <=> k = j

\* C12: for a file that a DetailLayer or FoliageMultiLayer element refers to,
\* parse_i3d_for_file returns a GdmLayer layout whose num_channels is the
\* element's numChannels or numDensityMapChannels attribute, whichever it
\* carries, and whose compression_channels is its compressionChannels
\* attribute when present; for a file an InfoLayer element refers to, it
\* returns an InfoLayer layout with the element's numChannels and no split
C12_LayoutFromElement ==
    PngRun =>
        \A j \in 1..Len(DescriptorLines) :
            LET line == DescriptorLines[j]
                has_num == Carries(line, <<"n", "u", "m", "C", "h", "a", "n", "n", "e", "l", "s">>)
                has_density == Carries(line, <<"n", "u", "m", "D", "e", "n", "s", "i", "t", "y", "M", "a", "p", "C", "h", "a", "n", "n", "e", "l", "s">>)
                count == IF has_num THEN extract_attr(line, <<"n", "u", "m", "C", "h", "a", "n", "n", "e", "l", "s">>)
                         ELSE extract_attr(line, <<"n", "u", "m", "D", "e", "n", "s", "i", "t", "y", "M", "a", "p", "C", "h", "a", "n", "n", "e", "l", "s">>)
            IN  (OnlyLayerLine(j) /\ count.some /\ ~(has_num /\ has_density)) =>
                    IF contains(line, <<"<", "I", "n", "f", "o", "L", "a", "y", "e", "r">>)
                    THEN has_num =>
                            DescriptorLayout
                                = SomeParams(LayerParams("InfoLayer", count.value, None))
                    ELSE (has_num \/ has_density) =>
                            DescriptorLayout
                                = SomeParams(LayerParams("GdmLayer", count.value,
                                        extract_attr(line, <<"c", "o", "m", "p", "r", "e", "s", "s", "i", "o", "n", "C", "h", "a", "n", "n", "e", "l", "s">>)))

----------------------------------------------------------------------------
(* Claims about the PACKED-DENSITY file and its blocks, checked under Spec *)

\* the PACKED-DENSITY encoder wrote its whole output and the file is as
\* written
GdmWritten ==
    /\ Finished
    /\ target = "gdm"
    /\ enc_result = "Ok"
    /\ bin.state = "complete"
    /\ damage = {}

\* the number of ranges of the layout
NumRanges == IF args.compression_channels.some THEN 2 ELSE 1

\* C13: a written PACKED-DENSITY file starts with the 16-byte "MDF header
\* (magic, version 0, dim_log2, chunk_log2 = 5, max_bpp = 2, numChannels,
\* numRanges, typeIndexChannels = 0, two zero bytes), then has exactly
\* numRanges - 1 boundary bytes, then the blocks of all chunks up to the end
\* of the file; the header parse of the decoder gives back the dimension,
\* numChannels, numRanges and the boundaries; the magic is never !MDF.  The
\* header fields are single bytes: channel counts and splits below 256.
C13_HeaderLayout ==
    ( /\ GdmWritten
      /\ args.num_channels < 256
      /\ args.compression_channels.value < 256 )
    => LET data == bin.data
           h == gdm_parse_header(data)
           chunks == (png_in.width \div 32) * (png_in.width \div 32)
           blocks == scan_blocks(data, 16 + NumRanges - 1, chunks * NumRanges,
                                 32, <<>>, FALSE)
       IN  /\ Len(data) >= 16 + NumRanges - 1
           /\ SubSeq(data, 1, 8) = <<34, 77, 68, 70, 0, 0, 0, 0>>
           /\ 2^(data[9] + 5) = png_in.width
           /\ SubSeq(data, 10, 16)
                 = <<5, 2, args.num_channels, NumRanges, 0, 0, 0>>
           /\ NumRanges = 2 => data[17] = args.compression_channels.value
           /\ blocks.status = "ok" /\ blocks.pos = Len(data)
           /\ gdm_magic(data) = "\"MDF"
           /\ h.header_size = 16
           /\ h.dimension = png_in.width
           /\ h.num_channels = args.num_channels
           /\ h.num_compression_ranges = NumRanges
           /\ gdm_boundaries(data, h)
                 = <<0>> \o (IF NumRanges = 2
                             THEN <<args.compression_channels.value>> ELSE <<>>)
                    \o <<args.num_channels>>

\* a written file of 64 x 64 pixels with two ranges
C13_Witness ==
    /\ GdmWritten
    /\ png_in.width = 64
    /\ NumRanges = 2
    /\ Len(bin.data) > 17
    /\ bin.data[17] = args.compression_channels.value

\* the encoder has just written a whole PACKED-DENSITY file
GdmJustWritten == GdmWritten /\ pc = "encoded"

\* the channel values of the input image, and the number of its chunks
ChannelValues == collect([k \in 1..(png_in.width * png_in.height) |-> channel_value(png_in, k - 1)])
NumChunks == (png_in.width \div 32) * (png_in.width \div 32)

\* the 1024 values of range r of chunk c that the encoder hands to
\* encode_gdm_block
RangePixels(values, c, r) ==
    LET bits == gdm_bits_per_range(args.num_channels, args.compression_channels)
    IN  collect([i \in 1..1024 |->
                    range_value(chunk_pixel(values, png_in.width, 32, c, i - 1),
                                range_shift(bits, r), bits[r + 1])])

\* the offset in the file of block n (0-based, in file order), each block
\* being 2 + 2 * paletteCount + bitDepth * 128 bytes long
RECURSIVE BlockStart(_, _)
BlockStart(data, n) ==
    IF n = 0 THEN 16 + NumRanges - 1
    ELSE LET prev == BlockStart(data, n - 1)
         IN  prev + 2 + 2 * At(data, prev + 1) + 128 * At(data, prev)

\* the bytes of block n of the file
FileBlock(data, n) == SubSeq(data, BlockStart(data, n) + 1, BlockStart(data, n + 1))

\* ceil(log2(n)) for n >= 1
CeilLog2(n) == CHOOSE k \in 0..17 : 2^k >= n /\ (k = 0 \/ 2^(k - 1) < n)

\* palette entry k (1-based) of a block
PaletteWord(blk, k) == blk[2 * k + 1] + 256 * blk[2 * k + 2]

\* the form of the block blk written for the 1024 values px, by the number u
\* of distinct values
BlockFormOk(px, blk) ==
    LET distinct == {px[k] : k \in 1..Len(px)}
        u == Cardinality(distinct)
        bit_depth == blk[1]
        palette_count == blk[2]
    IN  /\ u = 1 => \E v \in distinct : blk = <<0, 1, v % 256, v \div 256>>
        /\ u = 2 => bit_depth = 1 /\ palette_count = 2
        /\ u \in {3, 4} => bit_depth = 2 /\ palette_count = u
        /\ u > 4 => /\ palette_count = 0
                    /\ bit_depth = CeilLog2(SetMax(distinct) + 1)
                    /\ bit_depth \in 3..16
        /\ palette_count > 0 =>
              /\ {PaletteWord(blk, k) : k \in 1..palette_count} = distinct
              /\ \A k \in 1..(palette_count - 1) :
                    PaletteWord(blk, k) < PaletteWord(blk, k + 1)
        /\ Len(blk) = 2 + 2 * palette_count + bit_depth * 128
        /\ bit_depth = 0 => palette_count = 1
        /\ bit_depth \in {1, 2} => palette_count <= 2^bit_depth
        /\ bit_depth \in 3..16 => palette_count = 0
        /\ bit_depth \in 0..16

\* C14: every block of a written file has the form its chunk's values ask
\* for: one distinct value gives the 4 bytes [0, 1, lo, hi]; two give
\* bitDepth 1 and paletteCount 2; three or four give bitDepth 2 and
\* paletteCount u; more give paletteCount 0 and bitDepth ceil(log2(max + 1)),
\* which is in 3..16; the palette is the ascending distinct values, the
\* bitmap has bitDepth * 128 bytes and the ChunkBlock invariants hold
C14_BlockForm ==
    GdmJustWritten =>
        LET values == ChannelValues
        IN  \A c \in 0..(NumChunks - 1), r \in 0..(NumRanges - 1) :
               BlockFormOk(RangePixels(values, c, r),
                           FileBlock(bin.data, c * NumRanges + r))

\* a written file that has a uniform block, a palette block of bitDepth 2
\* and a raw block
C14_Witness ==
    /\ GdmJustWritten
    /\ \E n \in 0..(NumChunks * NumRanges - 1) : FileBlock(bin.data, n)[1] = 0
    /\ \E n \in 0..(NumChunks * NumRanges - 1) : FileBlock(bin.data, n)[1] = 2
    /\ \E n \in 0..(NumChunks * NumRanges - 1) : FileBlock(bin.data, n)[1] >= 3

\* C15: a chunk with exactly two distinct values a < b is written as 134
\* bytes: [1, 2, a as LE u16, b as LE u16] and a 128-byte bitmap in which bit
\* (i mod 8), from the least significant bit, of byte (i div 8) is 1 exactly
\* when pixel i is b; top half 3 / bottom half 7 gives the palette [3, 7],
\* 64 bytes 0x00 and 64 bytes 0xff
C15_TwoValueBlock ==
    GdmJustWritten =>
        LET values == ChannelValues
        IN  \A c \in 0..(NumChunks - 1), r \in 0..(NumRanges - 1) :
               LET px == RangePixels(values, c, r)
                   distinct == {px[k] : k \in 1..1024}
                   a == SetMin(distinct)
                   b == SetMax(distinct)
                   blk == FileBlock(bin.data, c * NumRanges + r)
               IN  Cardinality(distinct) = 2 =>
                      /\ Len(blk) = 134
                      /\ SubSeq(blk, 1, 6)
                            = <<1, 2, a % 256, a \div 256, b % 256, b \div 256>>
                      /\ \A i \in 0..1023 :
                            ((blk[7 + (i \div 8)] \div 2^(i % 8)) % 2 = 1)
                                <=> px[i + 1] = b
                      /\ (\A i \in 0..1023 : px[i + 1] = IF i < 512 THEN 3 ELSE 7)
                            => blk = <<1, 2, 3, 0, 7, 0>> \o Repeat(0, 64)
                                     \o Repeat(255, 64)

\* the written file of the image with top half 3 and bottom half 7: one
\* block of 134 bytes after the header
C15_Witness ==
    /\ GdmJustWritten
    /\ png_in.pat = "halves"
    /\ args.num_channels = 4
    /\ Len(bin.data) = 16 + 134
    /\ SubSeq(bin.data, 17, 22) = <<1, 2, 3, 0, 7, 0>>
    /\ bin.data[16 + 6 + 64] = 0
    /\ bin.data[16 + 6 + 65] = 255

\* the offset in the image, row-major, of pixel i of chunk c
ImageOffset(c, i) ==
    LET cpd == png_in.width \div 32
    IN  ((c \div cpd) * 32 + (i \div 32)) * png_in.width + (c % cpd) * 32 + (i % 32)

\* C16: with two ranges split at channel c, 0 < c < numChannels <= 8, the
\* file has for every chunk exactly two consecutive blocks; the first holds
\* v mod 2^c and the second (v div 2^c) mod 2^(numChannels - c) for each
\* pixel value v of the chunk; the decoder reads the two blocks of each chunk
\* and gives every pixel the value range0 | (range1 << c), whether or not
\* it can then write the PNG
C16_TwoRangeSplit ==
    ( /\ pc = "decoded"
      /\ GdmWritten
      /\ args.compression_channels.some
      /\ 0 < args.compression_channels.value
      /\ args.compression_channels.value < args.num_channels
      /\ args.num_channels <= 8 )
    => LET values == ChannelValues
           split == args.compression_channels.value
           high_bits == args.num_channels - split
       IN  /\ dec_result \in {"Ok", "io error"}
           /\ BlockStart(bin.data, 2 * NumChunks) = Len(bin.data)
           /\ \A c \in 0..(NumChunks - 1) :
                 LET range0 == decode_gdm_block(bin.data,
                                   BlockStart(bin.data, 2 * c), 32).pixels
                     range1 == decode_gdm_block(bin.data,
                                   BlockStart(bin.data, 2 * c + 1), 32).pixels
                 IN  \A i \in 0..1023 :
                        LET v == values[ImageOffset(c, i) + 1]
                        IN  /\ range0[i + 1] = v % 2^split
                            /\ range1[i + 1] = (v \div 2^split) % 2^high_bits
                            /\ decoded[ImageOffset(c, i) + 1]
                                  = BitOr(range0[i + 1], range1[i + 1] * 2^split)

\* a decoded two-range file of 64 x 64 pixels with 8 channels split at 3 in
\* which some pixel has bits in both ranges
C16_Witness ==
    /\ pc = "decoded"
    /\ GdmWritten
    /\ dec_result = "Ok"
    /\ png_in.width = 64
    /\ args.num_channels = 8
    /\ args.compression_channels = Some(3)
    /\ \E k \in 1..Len(decoded) : decoded[k] % 8 # 0 /\ decoded[k] \div 8 # 0

----------------------------------------------------------------------------
(* Claims about the RLE payload *)

\* the last index (1-based) of the maximal run of P that starts at index s
RunEnd(P, s) ==
    CHOOSE e \in s..Len(P) :
        /\ e = Len(P) \/ P[e + 1] # P[s]
        /\ \A q \in s..(e - 1) : P[q + 1] = P[s]

\* the bytes the claim gives a maximal run of length L of value v
RunBytes(v, L) ==
    IF L = 1 THEN <<v>>
    ELSE <<v, v>> \o Repeat(255, (L - 2) \div 255) \o <<(L - 2) % 255>>

\* the bytes of the maximal runs of P from index s on
RECURSIVE RunsBytes(_, _)
RunsBytes(P, s) ==
    IF s > Len(P) THEN <<>>
    ELSE RunBytes(P[s], RunEnd(P, s) - s + 1) \o RunsBytes(P, RunEnd(P, s) + 1)

\* C17: for a buffer of at least two pixels encode_grle_rle emits 0x00 and
\* then, for each maximal run of length L >= 2, the 2 + floor((L-2)/255) + 1
\* bytes value, value, floor((L-2)/255) times 0xff, (L-2) mod 255 (never
\* 0xff), and for each maximal run of length 1 one byte; a buffer without
\* two equal adjacent pixels encodes to 1 + |P| bytes
C17_RunByteCounts ==
    (rle_pc \in {"encoded", "decoded"} /\ Len(rle_pixels) >= 2) =>
        /\ rle_payload = <<0>> \o RunsBytes(rle_pixels, 1)
        /\ \A s \in 1..Len(rle_pixels) :
              LET L == RunEnd(rle_pixels, s) - s + 1
              IN  (s = 1 \/ rle_pixels[s - 1] # rle_pixels[s]) =>
                     /\ Len(RunBytes(rle_pixels[s], L))
                           = IF L >= 2 THEN 2 + ((L - 2) \div 255) + 1 ELSE 1
                     /\ RunBytes(rle_pixels[s], L)[Len(RunBytes(rle_pixels[s], L))]
                           # 255 \/ L = 1
        /\ (\A k \in 1..(Len(rle_pixels) - 1) : rle_pixels[k] # rle_pixels[k + 1])
              => Len(rle_payload) = 1 + Len(rle_pixels)

\* an encoded buffer with a run of 259 = 2 + 255 + 2 pixels and a single
\* pixel
C17_Witness ==
    /\ rle_pc = "encoded"
    /\ rle_pixels = Repeat(9, 259) \o <<0>>
    /\ rle_payload = <<0, 9, 9, 255, 2, 0>>

\* the RLE-LAYER encoder has just written the whole file of the all-zero
\* image of 256 x 256 pixels
ZeroFileWritten ==
    /\ pc = "encoded"
    /\ target = "grle"
    /\ png_in.pat = "zero"
    /\ png_in.width = 256 /\ png_in.height = 256
    /\ enc_result = "Ok"
    /\ bin.state = "complete"
    /\ damage = {}

\* C18 as stated: the file of the all-zero 256 x 256 image is the 20-byte
\* header followed by the payload 0x00, 0x00, 0x00, then 257 continuation
\* bytes 0xff, then one remainder byte 0xff
C18_AllZeroAsStated ==
    ZeroFileWritten =>
        /\ Len(bin.data) = 20 + 3 + 257 + 1
        /\ SubSeq(bin.data, 21, Len(bin.data))
              = <<0, 0, 0>> \o Repeat(255, 257) \o <<255>>

\* C18, amended: the file of the all-zero 256 x 256 image is the 20-byte
\* header (GRLE, version 1, width and height 1, 256, stored length 259)
\* followed by the payload 0x00, 0x00, 0x00, then 256 continuation bytes
\* 0xff, then the remainder byte 0xfe: 2 + 256 * 255 + 254 = 65536
C18_AllZeroFile ==
    ZeroFileWritten =>
        /\ Len(bin.data) = 20 + 3 + 256 + 1
        /\ SubSeq(bin.data, 1, 20)
              = <<71, 82, 76, 69, 1, 0, 1, 0, 0, 0, 1, 0, 0, 1, 0, 0, 0, 3, 1, 0>>
        /\ SubSeq(bin.data, 21, Len(bin.data))
              = <<0, 0, 0>> \o Repeat(255, 256) \o <<254>>

\* the written file of the all-zero image, which ends with 0xff, 0xfe
C18_Witness ==
    /\ ZeroFileWritten
    /\ Len(bin.data) = 280
    /\ bin.data[279] = 255
    /\ bin.data[280] = 254

----------------------------------------------------------------------------
(* Claims about the stored payload length, checked under SpecSizeField *)

\* C19: byte 16 of a written RLE-LAYER file is 0 and bytes 17-19, read as a
\* 24-bit little-endian number, are payloadLen - 1, for every accepted
\* image, also one whose payload is longer than 2^24 bytes
C19_StoredLength ==
    size_field # <<>> =>
        /\ size_field[1] = 0
        /\ size_field[2] + 256 * size_field[3] + 65536 * size_field[4]
              = payload_len - 1

----------------------------------------------------------------------------
(* Claims about the layouts of written PACKED-DENSITY files, checked under
   Spec *)

\* C20: for every numChannels and split the encoder is given, either the
\* encode is rejected with an error, or the written file has
\* numChannels <= 24 and strictly increasing boundaries 0 < split <
\* numChannels, so that no range is empty; the encoder never crashes
C20_LayoutInvariants ==
    (pc = "encoded" /\ target = "gdm" /\ damage = {}) =>
        /\ enc_result # "Panic"
        /\ (enc_result = "Ok" /\ bin.state = "complete") =>
              LET h == gdm_parse_header(bin.data)
                  boundaries == gdm_boundaries(bin.data, h)
              IN  /\ h.num_channels <= 24
                  /\ h.num_channels = args.num_channels
                  /\ \A i \in 1..(Len(boundaries) - 1) :
                        boundaries[i] < boundaries[i + 1]

----------------------------------------------------------------------------
(* Claims about decode_grle_rle on any payload *)

\* the decoder is in its loop, or has left it, on a payload of SpecDecoder
InDecoder == rle_pc \in {"loop", "returned"}

\* a step of the decoder that runs the loop body once
IsIteration == rle_pc = "loop" /\ rle_pc' = "loop"

\* s is t followed by copies of v
ExtendsBy(s, t, v) ==
    /\ Len(s) >= Len(t)
    /\ \A k \in 1..Len(s) : s[k] = IF k <= Len(t) THEN t[k] ELSE v

\* C23: for every payload and every expected_size decode_grle_rle returns
\* exactly expected_size bytes; at no step is the output longer than
\* expected_size (an iteration adds copies of the pair's first byte, a run
\* that overshoots fills the output exactly), and what the loop has not
\* produced when it ends is filled with 0
C23_OutputBound ==
    /\ [](InDecoder => Len(rle_decoded) <= rle_expected_size)
    /\ [](rle_pc = "returned" => Len(rle_decoded) = rle_expected_size)
    /\ [][IsIteration =>
             /\ ExtendsBy(rle_decoded', rle_decoded, At(rle_payload, rle_i))
             /\ Len(rle_decoded') > Len(rle_decoded)]_vars
    /\ [][(rle_pc = "loop" /\ rle_pc' = "returned") =>
             ExtendsBy(rle_decoded', rle_decoded, 0)]_vars

\* the run of 2 + 255 + 9 = 266 copies of 7 was cut to the 258 expected
C23_Witness ==
    /\ rle_pc = "returned"
    /\ rle_payload = <<0, 7, 7, 255, 9>>
    /\ rle_expected_size = 258
    /\ rle_decoded = Repeat(7, 258)

\* C24: for every payload and every expected_size decode_grle_rle returns;
\* every loop iteration moves the cursor forward, by at least 3 or to the
\* end of the payload on a run and by exactly 1 on a transition, and the
\* cursor is never below 1
C24_DecoderTerminates ==
    /\ <>(rle_pc = "returned")
    /\ [](InDecoder => rle_i >= 1)
    /\ [][IsIteration =>
             /\ rle_i' > rle_i
             /\ At(rle_payload, rle_i) = At(rle_payload, rle_i + 1) =>
                    rle_i' >= rle_i + 3 \/ rle_i' = Len(rle_payload)
             /\ At(rle_payload, rle_i) # At(rle_payload, rle_i + 1) =>
                    rle_i' = rle_i + 1]_vars

\* a transition moved the cursor from 1 to 2, the run at 2 and 3 moved it to
\* the end of the payload
C24_Witness ==
    /\ rle_pc = "returned"
    /\ rle_payload = <<0, 9, 7, 7>>
    /\ rle_expected_size = 5
    /\ rle_i = 4
    /\ rle_decoded = <<9, 7, 7, 0, 0>>

----------------------------------------------------------------------------
(* Claims about the RLE round trip *)

\* C25: for every pixel buffer P and every byte b, decoding the encoder's
\* payload with b appended, to |P| pixels, gives P
C25_TrailingByte ==
    rle_pc = "decoded padded" => rle_decoded = rle_pixels

\* the appended byte equals the last pixel, a single one: the pair (9, 9) is
\* read as a run of two and one pixel of it is kept
C25_Witness ==
    /\ rle_pc = "decoded padded"
    /\ rle_pixels = <<0, 9>>
    /\ rle_payload = <<0, 0, 9, 9>>
    /\ rle_decoded = <<0, 9>>

\* C28: without an appended byte the decoded buffer has the length of P and
\* agrees with P everywhere but possibly at the last pixel; it is P when
\* |P| <= 1 (one pixel v is encoded as 0, v, v, 0), when the last two pixels
\* are equal or when the last pixel is 0, and else P with 0 as last pixel
C28_UnpaddedShape ==
    LET P == rle_pixels
        n == Len(rle_pixels)
    IN  /\ (rle_pc \in {"encoded", "decoded"} /\ n = 1) =>
               rle_payload = <<0, P[1], P[1], 0>>
        /\ rle_pc = "decoded" =>
               /\ Len(rle_decoded) = n
               /\ \A k \in 1..(n - 1) : rle_decoded[k] = P[k]
               /\ n >= 1 => rle_decoded[n] =
                      IF n = 1 \/ P[n] = 0 THEN P[n]
                      ELSE IF P[n] = P[n - 1] THEN P[n] ELSE 0

\* a single last pixel 255 after a run came back as 0
C28_Witness ==
    /\ rle_pc = "decoded"
    /\ rle_pixels = <<9, 9, 255>>
    /\ rle_payload = <<0, 9, 9, 0, 255>>
    /\ rle_decoded = <<9, 9, 0>>

----------------------------------------------------------------------------
(* Claims about the !MDF header *)

\* the "MDF file with the fields, boundaries and blocks of a !MDF file
LongHeaderTwin(data) ==
    <<34, 77, 68, 70, 0, 0, 0, 0>> \o SubSeq(data, 5, 9) \o <<0, 0, 0>>
    \o SubSeq(data, 10, Len(data))

\* C21: a well-formed !MDF file (9-byte header, numRanges - 1 boundary bytes,
\* the blocks) is decoded whenever the "MDF file of the same fields,
\* boundaries and blocks is, and to the same pixels; the 13-byte file of a
\* 32x32 single-range uniform image is among them
C21_ShortHeaderSamePixels ==
    (pc = "decoded" /\ target = "gdm" /\ damage = {"short"}) =>
        LET short == convert_gdm_to_png(bin.data)
            long  == convert_gdm_to_png(LongHeaderTwin(bin.data))
        IN  /\ short.result = long.result
            /\ short.combined = long.combined
            /\ decoded = long.combined

----------------------------------------------------------------------------
(* Claims about blocks of up to 10 bits *)

\* the widths of the ranges of a layout
RangeWidths(q) ==
    IF q.compression_channels.some
    THEN <<q.compression_channels.value,
           q.num_channels - q.compression_channels.value>>
    ELSE <<q.num_channels>>

\* every range of the layout is between 0 and 10 bits wide
NarrowLayout(q) == \A k \in 1..Len(RangeWidths(q)) : RangeWidths(q)[k] \in 0..10

\* C29: when every range of the layout is at most 10 bits wide (every layout
\* of up to 8 channels is), decoding the file the encoder wrote for a buffer
\* with values below 2^numChannels gives the buffer back; in a raw block of
\* bit depth 3..10 no value reaches into a third bitmap byte
C29_NarrowRoundTrip ==
    /\ ( /\ pc = "decoded"
         /\ target = "gdm"
         /\ damage = {}
         /\ NarrowLayout(args)
         /\ png_in.bits <= args.num_channels )
       => /\ decoded = CombinedValues(png_in)
          /\ dec_result \in {"Ok", "io error"}
    /\ (GdmJustWritten /\ NarrowLayout(args)) =>
          \A n \in 0..(NumChunks * NumRanges - 1) :
             LET bit_depth == At(bin.data, BlockStart(bin.data, n))
             IN  bit_depth \in 3..10 =>
                    \A pixel_idx \in 0..1023 :
                       ((pixel_idx * bit_depth) % 8) + bit_depth <= 16

\* a decoded file of two ranges of 10 bits each, with raw blocks of bit
\* depth 10, and a value above 2^10 among the pixels
C29_Witness ==
    /\ pc = "decoded"
    /\ target = "gdm"
    /\ damage = {}
    /\ args = Par(20, Some(10))
    /\ At(bin.data, 17) = 10
    /\ decoded = CombinedValues(png_in)
    /\ \E k \in 1..Len(decoded) : decoded[k] > 2^19

----------------------------------------------------------------------------
(* Claims about the size of palette blocks *)

\* the length of the raw block for values whose largest is max_val:
\* 2 + ceil(log2(max + 1)) * 128
RawBlockLen(max_val) == 2 + CeilLog2(max_val + 1) * 128

\* P(u, max_val, blk) for every block blk of the written file whose chunk
\* range has u distinct values, 2 <= u <= 4, the largest being max_val
ForPaletteBlocks(P(_, _, _)) ==
    LET values == ChannelValues
    IN  \A c \in 0..(NumChunks - 1), r \in 0..(NumRanges - 1) :
           LET px == RangePixels(values, c, r)
               distinct == {px[k] : k \in 1..1024}
           IN  Cardinality(distinct) \in 2..4 =>
                  P(Cardinality(distinct), SetMax(distinct),
                    FileBlock(bin.data, c * NumRanges + r))

\* C27 as stated: for every chunk with 2 to 4 distinct values the palette
\* block encode_gdm_block emits, of 2 + 2 * paletteCount + bitDepth * 128
\* bytes, is no larger than the raw block for the same values
C27_PaletteNoLarger ==
    GdmJustWritten =>
        LET NoLarger(u, max_val, blk) ==
                /\ Len(blk) = 2 + 2 * blk[2] + blk[1] * 128
                /\ Len(blk) <= RawBlockLen(max_val)
        IN  ForPaletteBlocks(NoLarger)

\* C27: for every chunk with 2 to 4 distinct values the palette block has
\* 2 + 2 * u + bitDepth * 128 bytes, bitDepth being 1 for 2 values and 2 for
\* 3 or 4; it is no larger than the raw block exactly when the largest
\* value is at least 2^bitDepth, and is then at least 120 bytes smaller;
\* otherwise it is larger than the raw block by the 2 * u palette bytes
C27_PaletteVsRaw ==
    GdmJustWritten =>
        LET Compared(u, max_val, blk) ==
                LET bit_depth == IF u = 2 THEN 1 ELSE 2
                IN  /\ Len(blk) = 2 + 2 * u + bit_depth * 128
                    /\ Len(blk) <= RawBlockLen(max_val) <=> max_val >= 2^bit_depth
                    /\ max_val >= 2^bit_depth =>
                           Len(blk) + 120 <= RawBlockLen(max_val)
                    /\ max_val < 2^bit_depth =>
                           Len(blk) = RawBlockLen(max_val) + 2 * u
        IN  ForPaletteBlocks(Compared)

\* a written file with a block for the two values 0 and 1: 134 bytes, where
\* the raw block would have 130
C27_Witness ==
    /\ GdmJustWritten
    /\ \E n \in 0..(NumChunks * NumRanges - 1) :
          /\ Len(FileBlock(bin.data, n)) = 134
          /\ SubSeq(FileBlock(bin.data, n), 1, 6) = <<1, 2, 0, 0, 1, 0>>

----------------------------------------------------------------------------
(* Claims about the placement of chunks and pixels *)

\* C26: the encoder takes pixel i of chunk k from image row
\* (k div cpd) * 32 + i div 32 and column (k mod cpd) * 32 + i mod 32, with
\* cpd = dimension / 32, and emits the chunks in the order of k; the decoder
\* writes pixel i of chunk k to the same position; every position of the
\* image is written by exactly one pair (k, i), the pair the encoder read it
\* from
C26_PlacementAgrees ==
    GdmJustWritten =>
        LET dimension == png_in.width
            positions == 0..(dimension * dimension - 1)
            identity  == collect([p \in 1..(dimension * dimension) |-> p - 1])
            h         == gdm_parse_header(bin.data)
            written   == {gdm_img_idx(h.dimension, h.chunk_size, k, i) :
                             k \in 0..(NumChunks - 1), i \in 0..1023}
        IN  /\ h.dimension = dimension /\ h.chunk_size = 32
            /\ NumChunks * 1024 = Cardinality(positions)
            /\ written = positions
            /\ \A k \in 0..(NumChunks - 1), i \in 0..1023 :
                  /\ chunk_pixel(identity, dimension, 32, k, i) = ImageOffset(k, i)
                  /\ gdm_img_idx(h.dimension, h.chunk_size, k, i) = ImageOffset(k, i)
                  /\ gdm_writer_of(ImageOffset(k, i), h.dimension, h.chunk_size)
                        = [chunk_idx |-> k, pixel_idx |-> i]
            /\ (NarrowLayout(args) /\ args.num_channels <= 24) =>
                  \A k \in 0..(NumChunks - 1) :
                     LET blk == decode_gdm_block(bin.data,
                                                 BlockStart(bin.data, k * NumRanges), 32)
                     IN  blk.pixels = RangePixels(ChannelValues, k, 0)

\* a written 128x128 file (cpd = 4): pixel 33 of chunk 6 is the pixel of
\* row 32 + 1 and column 64 + 1 for the encoder and for the decoder
C26_Witness ==
    /\ GdmJustWritten
    /\ png_in.width = 128
    /\ NumChunks = 16
    /\ ImageOffset(6, 33) = 33 * 128 + 65
    /\ chunk_pixel(ChannelValues, 128, 32, 6, 33) = At(ChannelValues, 33 * 128 + 65)
    /\ gdm_img_idx(128, 32, 6, 33) = 33 * 128 + 65

----------------------------------------------------------------------------
(* Claims about the format main writes *)

\* the run resolved parameters for a .png input and called an encoder
EncoderCalled == PngRun /\ main_out.params.some

\* the path ends in .grle, in lower or upper case
EndsInGrle(path) ==
    /\ Len(path) >= 5
    /\ SubSeq(path, Len(path) - 4, Len(path))
          \in {<<".", "g", "r", "l", "e">>, <<".", "G", "R", "L", "E">>}

\* C30: when an output path is given, main writes to it, RLE-LAYER if its
\* extension is grle in any case and PACKED-DENSITY for every other
\* extension or none, whatever layer type was resolved; when none is given,
\* an InfoLayer is written as RLE-LAYER to <stem>.grle and a GdmLayer as
\* PACKED-DENSITY to <stem>.gdm
C30_FormatChosen ==
    EncoderCalled =>
        LET layer_type == main_out.params.value.layer_type
            stem == file_stem(Parsed.input_path.value).value
        IN  /\ main_out.call \in {"convert_png_to_grle", "convert_png_to_gdm"}
            /\ Parsed.output_path.some =>
                  /\ main_out.output = Parsed.output_path.value
                  /\ main_out.call = "convert_png_to_grle"
                        <=> EndsInGrle(Parsed.output_path.value)
            /\ ~Parsed.output_path.some =>
                  /\ main_out.call = "convert_png_to_grle" <=> layer_type = "InfoLayer"
                  /\ main_out.output =
                        stem \o (IF layer_type = "InfoLayer"
                                 THEN <<".", "g", "r", "l", "e">>
                                 ELSE <<".", "g", "d", "m">>)

\* a run that resolved an InfoLayer from the descriptor and wrote it as
\* PACKED-DENSITY to the given path o.gdm
C30_Witness ==
    /\ EncoderCalled
    /\ DescriptorLayout.some
    /\ main_out.params.value.layer_type = "InfoLayer"
    /\ Parsed.output_path = SomeStr(<<"o", ".", "g", "d", "m">>)
    /\ main_out.call = "convert_png_to_gdm"
    /\ main_out.output = <<"o", ".", "g", "d", "m">>

----------------------------------------------------------------------------
(* Claims about the order in which chunks are encoded *)

\* the 1024 combined values of chunk k of the image of SpecChunks, row by
\* row
ChunkValues(k) ==
    LET img == chunks_case.img
        cpd == img.width \div 32
    IN  collect([i \in 1..1024 |->
                    channel_value(img, ((k \div cpd) * 32 + ((i - 1) \div 32)) * img.width
                                       + (k % cpd) * 32 + ((i - 1) % 32))])

\* the bytes for 1024 values px under the layout q: for each range, in
\* ascending order, the block of the range's bits of the values
BlocksOfValues(px, q) ==
    LET widths == RangeWidths(q)
        RECURSIVE from(_, _)
        from(r, shift) ==
            IF r > Len(widths) THEN <<>>
            ELSE encode_gdm_block(
                     collect([i \in 1..1024 |->
                                 (px[i] \div 2^shift) % 2^widths[r]]), 32)
                 \o from(r + 1, shift + widths[r])
    IN  from(1, 0)

\* C22: the bytes emitted for a chunk depend on the 1024 values of the
\* chunk and on the layout only, not on the other chunks, on the chunk's
\* index or on what was emitted before; so with the chunks encoded in any
\* order and their bytes put together in the order of the chunk index, the
\* byte stream is the one the sequential encoder writes
C22_ScheduleIndependent ==
    chunks_pc \in {"encoding", "joined"} =>
        /\ \A k \in 0..(Len(chunk_blocks) - 1) :
              chunk_blocks[k + 1] # <<>> =>
                 chunk_blocks[k + 1]
                    = BlocksOfValues(ChunkValues(k), chunks_case.params)
        /\ chunks_pc = "joined" =>
              stream = convert_png_to_gdm(chunks_case.img, chunks_case.params).output

\* the four chunks of a two-range image were encoded in the order 3, 1, 0,
\* 2 and put together
C22_Witness ==
    /\ chunks_pc = "joined"
    /\ order = <<3, 1, 0, 2>>
    /\ chunks_case.params = Par(8, Some(3))
    /\ stream = convert_png_to_gdm(chunks_case.img, chunks_case.params).output
    /\ Len(stream) > 17

====
